---- MODULE Spec2Model ----
(***************************************************************************)
(* Model of the EtherFi anomaly-detection engine:                          *)
(*   backend/src/analysis/baseline-calculator.js   (baseline cache)        *)
(*   backend/src/analysis/statistical-prefilter.js (pre-filter)            *)
(*   backend/src/analysis/anomaly-detector.js      (orchestrator)          *)
(*   backend/src/analysis/claude-analyzer.js       (deep analysis engine)  *)
(*   backend/src/collectors/blockchain-collector.js (periodic driver)      *)
(*   backend/src/api/routes/baseline.js            (GET /api/baseline)     *)
(*   the manual analysis route               (POST /api/analysis/generate) *)
(*                                                                         *)
(* Time is counted in units of 150 seconds, so that the three periods of   *)
(* five minutes (rate limit, cache TTL, collection interval) are 2 units.  *)
(* Peg ratios are counted in thousandths (1000 = 1.0), sentiment scores    *)
(* and shares in tenths.  A z-score is the exact fraction num/den and is   *)
(* compared with a threshold k/10 by cross-multiplication.                 *)
(***************************************************************************)
EXTENDS Integers, Sequences, FiniteSets, TLC

(***************************************************************************)
(* Bounds of the model.                                                    *)
(***************************************************************************)
MaxTime == 5
MaxCycles == 3
MaxRequests == 2
MaxFindings == 2
MaxCallTime == 2
MaxText == 3
MaxClock == 26
MaxGaps == 2

(***************************************************************************)
(* Program constants.                                                      *)
(***************************************************************************)
minIntervalMs == 2
CACHE_TTL == 2
COLLECTION_INTERVAL == 2
MIN_DATA_POINTS == 48
MANUAL_MIN_DATA_POINTS == 12
maxRetries == 3
\* samples per hour at the default collection interval of 5 minutes
SamplesPerHour == 12
\* recentData.slice(0, 20) of the callers of analyzeWithClaude
EngineSamples == 20
\* recentData.slice(0, 10) of constructPrompt
PromptSamples == 10
\* getTimeSeriesData(2) of detectAnomalies, getTimeSeriesData(24) of the manual route
ContextHours == {2, 24}

Z_SCORE_HIGH == 25
Z_SCORE_MEDIUM == 20
Z_SCORE_CRITICAL == 30
PEG_CRITICAL == 10
PEG_HIGH == 5
PEG_MEDIUM == 3
GAS_CRITICAL == 50
GAS_HIGH == 20
GAS_MEDIUM == 10
SENTIMENT_NEGATIVE_PCT == 4
SENTIMENT_SCORE_LOW == -3
SENTIMENT_NEGATIVE_HIGH == 6
MIN_CORRELATED_SIGNALS == 2

\* null / undefined of a numeric value, and of a time
NoValue == -1
NoTime == -1

Abs(x) == IF x < 0 THEN -x ELSE x

(***************************************************************************)
(* Pre-filter (statistical-prefilter.js).                                  *)
(***************************************************************************)

\* faulty variant: no guard, the division by 0 gives an infinite z-score
calculateZScoreUnguarded(value, mean, stddev) ==
    IF stddev = 0 \/ stddev = NoValue
    THEN [num |-> (value - mean) * 1000, den |-> 1]
    ELSE [num |-> value - mean, den |-> stddev]

\* calculateZScore: 0 when stddev is 0, null or undefined
calculateZScore(value, mean, stddev) ==
    IF stddev = 0 \/ stddev = NoValue
    THEN [num |-> 0, den |-> 1]
    ELSE [num |-> value - mean, den |-> stddev]

\* z >= k/10 and |z| >= k/10, den > 0
ZGe(z, k10) == 10 * z.num >= k10 * z.den
ZAbsGe(z, k10) == 10 * Abs(z.num) >= k10 * z.den

\* JavaScript truthiness of a snapshot column.  A DECIMAL column read from the
\* store is delivered as a string (non-empty, hence truthy even for "0.00");
\* an INTEGER column or a value set by a caller is a number.
Truthy(v, isString) == v /= NoValue /\ (isString \/ v /= 0)

severityLevels(s) ==
    CASE s = "LOW" -> 1
      [] s = "MEDIUM" -> 2
      [] s = "HIGH" -> 3
      [] s = "CRITICAL" -> 4
      [] OTHER -> 0

\* faulty variant: the severity of the latest trigger replaces the maximum
updateMaxSeverityLatest(currentMax, newSeverity) == newSeverity

\* updateMaxSeverity(currentMax, newSeverity); "NONE" stands for null
updateMaxSeverity(currentMax, newSeverity) ==
    IF currentMax = "NONE" THEN newSeverity
    ELSE IF severityLevels(newSeverity) > severityLevels(currentMax)
         THEN newSeverity ELSE currentMax

Trig(m, s) == [metric |-> m, severity |-> s]

\* 1. TVL analysis
TvlTriggers(cur, base) ==
    IF Truthy(cur.tvl_eth, cur.decimalsAsStrings) /\ base.tvl_avg /= 0
    THEN LET z == calculateZScore(cur.tvl_eth, base.tvl_avg, base.tvl_stddev)
         IN  IF ZAbsGe(z, Z_SCORE_HIGH)
             THEN << Trig("tvl", IF ZAbsGe(z, Z_SCORE_CRITICAL) THEN "CRITICAL" ELSE "HIGH") >>
             ELSE IF ZAbsGe(z, Z_SCORE_MEDIUM)
                  THEN << Trig("tvl", "MEDIUM") >>
                  ELSE << >>
    ELSE << >>

\* 2. peg health analysis: tier of |ratio - 1.0|, "NONE" for null
PegSeverity(ratio) ==
    LET pegDeviation == Abs(ratio - 1000)
    IN  IF pegDeviation >= PEG_CRITICAL THEN "CRITICAL"
        ELSE IF pegDeviation >= PEG_HIGH THEN "HIGH"
        ELSE IF pegDeviation >= PEG_MEDIUM THEN "MEDIUM"
        ELSE "NONE"

PegTriggers(cur, base) ==
    IF Truthy(cur.eeth_eth_ratio, cur.decimalsAsStrings)
    THEN LET pegSeverity == PegSeverity(cur.eeth_eth_ratio)
             z == calculateZScore(cur.eeth_eth_ratio, base.peg_avg, base.peg_stddev)
         IN  (IF pegSeverity /= "NONE" THEN << Trig("peg", pegSeverity) >> ELSE << >>)
             \o
             (IF base.peg_avg /= 0 /\ base.peg_stddev /= 0
                 /\ ZAbsGe(z, Z_SCORE_HIGH) /\ pegSeverity = "NONE"
              THEN << Trig("peg_zscore", "MEDIUM") >> ELSE << >>)
    ELSE << >>

\* 3. gas price analysis
GasTriggers(cur) ==
    IF Truthy(cur.avg_gas_price_gwei, cur.decimalsAsStrings)
    THEN IF cur.avg_gas_price_gwei >= GAS_CRITICAL THEN << Trig("gas", "CRITICAL") >>
         ELSE IF cur.avg_gas_price_gwei >= GAS_HIGH THEN << Trig("gas", "HIGH") >>
         ELSE IF cur.avg_gas_price_gwei >= GAS_MEDIUM THEN << Trig("gas", "MEDIUM") >>
         ELSE << >>
    ELSE << >>

\* 4. / 5. withdrawal queue and withdrawal volume: upper tail only
UpperTailTriggers(metric, value, avg, stddev) ==
    IF Truthy(value, FALSE) /\ avg /= 0
    THEN LET z == calculateZScore(value, avg, stddev)
         IN  IF ZGe(z, Z_SCORE_HIGH)
             THEN << Trig(metric, IF ZGe(z, Z_SCORE_CRITICAL) THEN "HIGH" ELSE "MEDIUM") >>
             ELSE << >>
    ELSE << >>

\* 6. sentiment analysis; sent.present = FALSE stands for null
SentimentTriggers(sent) ==
    IF sent.present
    THEN IF sent.negative_pct >= SENTIMENT_NEGATIVE_PCT
            \/ sent.avg_sentiment <= SENTIMENT_SCORE_LOW
         THEN << Trig("sentiment",
                      IF sent.negative_pct >= SENTIMENT_NEGATIVE_HIGH THEN "HIGH" ELSE "MEDIUM") >>
         ELSE << >>
    ELSE << >>

MetricTriggers(cur, base, sent) ==
    TvlTriggers(cur, base) \o PegTriggers(cur, base) \o GasTriggers(cur)
    \o UpperTailTriggers("queue", cur.queue_size, base.queue_size_avg, base.queue_size_stddev)
    \o UpperTailTriggers("withdrawals", cur.withdrawals_24h, base.withdrawals_avg,
                         base.withdrawals_stddev)
    \o SentimentTriggers(sent)

RECURSIVE MaxSeverityOf(_, _)
MaxSeverityOf(triggers, acc) ==
    IF triggers = << >> THEN acc
    ELSE MaxSeverityOf(Tail(triggers), updateMaxSeverity(acc, Head(triggers).severity))

\* toFixed is called on currentData.tvl_eth, .eeth_eth_ratio and
\* .avg_gas_price_gwei when their trigger is built; on a string it throws
ToFixedThrows(cur, base) ==
    cur.decimalsAsStrings
    /\ (TvlTriggers(cur, base) \o PegTriggers(cur, base) \o GasTriggers(cur)) /= << >>

\* faulty variant: escalation decided from the severity alone, null counted as severe
ShouldCallClaudeNullEscalates(isAnomalous, maxSeverity, hasMultipleSignals) ==
    maxSeverity \notin {"LOW", "MEDIUM"} \/ hasMultipleSignals

ShouldCallClaude(isAnomalous, maxSeverity, hasMultipleSignals) ==
    isAnomalous /\ (maxSeverity = "CRITICAL" \/ maxSeverity = "HIGH" \/ hasMultipleSignals)

\* faulty variant: more than MIN_CORRELATED_SIGNALS metrics are asked for
HasMultipleSignalsAbove(uniqueMetrics) ==
    Cardinality(uniqueMetrics) > MIN_CORRELATED_SIGNALS

\* uniqueMetrics.size >= THRESHOLDS.MIN_CORRELATED_SIGNALS
HasMultipleSignals(uniqueMetrics) ==
    Cardinality(uniqueMetrics) >= MIN_CORRELATED_SIGNALS

\* date is what new Date() gives at the time of the evaluation
analyzeStatisticalAnomalies(cur, base, sent, date) ==
    LET metricTriggers == MetricTriggers(cur, base, sent)
        uniqueMetrics == { metricTriggers[i].metric : i \in DOMAIN metricTriggers }
        hasMultipleSignals == HasMultipleSignals(uniqueMetrics)
        triggers == IF hasMultipleSignals
                    THEN Append(metricTriggers, Trig("correlation", "HIGH"))
                    ELSE metricTriggers
        maxSeverity == MaxSeverityOf(triggers, "NONE")
        isAnomalous == Len(triggers) > 0
    IN  [thrown |-> ToFixedThrows(cur, base),
         isAnomalous |-> isAnomalous,
         shouldCallClaude |-> ShouldCallClaude(isAnomalous, maxSeverity, hasMultipleSignals),
         triggers |-> triggers,
         maxSeverity |-> maxSeverity,
         timestamp |-> IF cur.timestamp = NoTime THEN date ELSE cur.timestamp]

(***************************************************************************)
(* Inputs of the model.                                                    *)
(***************************************************************************)

\* aggregate profile of the historical rows (AVG / STDDEV columns)
BaseStats ==
    [tvl_avg |-> 1000, tvl_stddev |-> 50,
     peg_avg |-> 1000, peg_stddev |-> 0,
     gas_avg |-> 5,
     queue_size_avg |-> 10, queue_size_stddev |-> 2,
     withdrawals_avg |-> 10, withdrawals_stddev |-> 2]

DataPoint(tvl, peg, gas, queue, wd) ==
    [tvl_eth |-> tvl, eeth_eth_ratio |-> peg, avg_gas_price_gwei |-> gas,
     queue_size |-> queue, withdrawals_24h |-> wd]

NoSentiment == [present |-> FALSE, negative_pct |-> 0, avg_sentiment |-> 0]
NegativeSentiment == [present |-> TRUE, negative_pct |-> 4, avg_sentiment |-> -1]

\* what one collection can store (data point, sentiment of the last 24 hours):
\* calm; 40% negative tweets; queue at z = 3.0; peg at 0.987
Collected ==
    { << DataPoint(1000, 1000, 5, 10, 10), NoSentiment >>,
      << DataPoint(1000, 1000, 5, 10, 10), NegativeSentiment >>,
      << DataPoint(1000, 1000, 5, 16, 10), NoSentiment >>,
      << DataPoint(1000, 987, 5, 10, 10), NoSentiment >> }

\* row written when a collection fails: every metric column is null
ErrorPoint == DataPoint(NoValue, NoValue, NoValue, NoValue, NoValue)

\* a row of time_series_data as the store returns it
Row(point, ts) ==
    [tvl_eth |-> point.tvl_eth, eeth_eth_ratio |-> point.eeth_eth_ratio,
     avg_gas_price_gwei |-> point.avg_gas_price_gwei,
     queue_size |-> point.queue_size, withdrawals_24h |-> point.withdrawals_24h,
     decimalsAsStrings |-> TRUE, timestamp |-> ts, present |-> TRUE]

NoRow == [present |-> FALSE]

InitPoints == {46, 47}
InitPointsBaseline == {11, 47}
\* req.query.days: a window chosen by the client, or the default
RouteDays == {7, 30}

\* process.env.COLLECTION_INTERVAL: half of the default, or the default
Intervals == {1, COLLECTION_INTERVAL}

Cycles == 1..MaxCycles
Requests == 1..MaxRequests

(***************************************************************************)
(* The engine: the answer of the external service and its validation       *)
(* (claude-analyzer.js).  A confidence is kept in tenths.                  *)
(***************************************************************************)
retryDelay == 2        \* seconds

Absent == ""

Number(v) == [kind |-> "number", v |-> v]

NotANumber == [kind |-> "string", v |-> 0]

Undefined == [kind |-> "undefined", v |-> 0]

Candidate(type, severity, confidence, title, description) ==
    [type |-> type, severity |-> severity, confidence |-> confidence,
     title |-> title, description |-> description]

Candidates ==
    { Candidate("peg_deviation", "HIGH", Number(8), "t", "d"),
      Candidate("peg_deviation", "SEVERE", Number(8), "t", "d"),
      Candidate("tvl_change", "LOW", Number(15), "t", "d"),
      Candidate("tvl_change", "CRITICAL", NotANumber, "t", "d"),
      Candidate("queue_spike", "MEDIUM", Number(0), "t", "d"),
      Candidate("queue_spike", "HIGH", Number(10), Absent, "d"),
      Candidate("unusual_pattern", "LOW", Undefined, "t", "d") }

Batches == UNION { [1..n -> Candidates] : n \in 0..MaxFindings }

validSeverities == {"LOW", "MEDIUM", "HIGH", "CRITICAL"}

\* a string field of a candidate: an absent or empty one is undefined here
String(s) == [kind |-> IF s = Absent THEN "undefined" ELSE "string", v |-> 0]

\* !anomaly[field] of JavaScript: true of undefined, of the empty string and of
\* the number 0
MissingField(value) ==
    \/ value.kind = "undefined"
    \/ value.kind = "number" /\ value.v = 0

required(anomaly) ==
    << String(anomaly.type), String(anomaly.severity), anomaly.confidence,
       String(anomaly.title), String(anomaly.description) >>

IsMissingRequired(anomaly) ==
    \E field \in 1..5 : MissingField(required(anomaly)[field])

ValidSeverity(severity) ==
    IF severity \in validSeverities THEN severity ELSE "MEDIUM"

ValidConfidence(confidence) ==
    IF confidence.kind /= "number" \/ confidence.v < 0 \/ confidence.v > 10
    THEN 5
    ELSE confidence.v

Validated(anomaly, index) ==
    [type |-> anomaly.type, severity |-> ValidSeverity(anomaly.severity),
     confidence |-> ValidConfidence(anomaly.confidence), title |-> anomaly.title,
     description |-> anomaly.description, index |-> index]

\* what parseClaudeResponse makes of the anomalies array of a response that is JSON
parseClaudeResponse(batch) ==
    IF \E i \in DOMAIN batch : IsMissingRequired(batch[i])
    THEN [thrown |-> TRUE, anomalies |-> << >>]
    ELSE [thrown |-> FALSE,
          anomalies |-> [i \in DOMAIN batch |-> Validated(batch[i], i)]]

BackoffConstant(attempt) == retryDelay

Backoff(attempt) == retryDelay * 2 ^ (attempt - 1)

IdleEngine ==
    [pc |-> "idle", attempt |-> 0, calls |-> 0, delays |-> << >>, failures |-> 0,
     answered |-> FALSE, batch |-> << >>, parsed |-> << >>, stored |-> << >>,
     rejected |-> FALSE, insertFailed |-> FALSE,
     result |-> [present |-> FALSE, success |-> FALSE, anomalies |-> 0]]

(***************************************************************************)
(* The text of a response (parseClaudeResponse, lines 190-199): a sequence *)
(* of pieces, each a code-fence marker, the tag json, a line break or some *)
(* other text.                                                             *)
(***************************************************************************)
Fence == "fence"
Tag == "json"
Newline == "LF"
Other == "text"

\* a valid payload: JSON text whose string values may hold fence markers and
\* the word json
Payloads ==
    { << Other >> \o middle \o << Other >> :
        middle \in UNION { [1..n -> {Other, Fence, Tag}] : n \in 0..MaxText } }

Fenced(payload, tagged) ==
    (IF tagged THEN << Fence, Tag, Newline >> ELSE << Fence, Newline >>)
    \o payload \o << Newline, Fence >>

RECURSIVE trim(_)
trim(text) ==
    IF text = << >> THEN text
    ELSE IF Head(text) = Newline THEN trim(Tail(text))
    ELSE IF text[Len(text)] = Newline THEN trim(SubSeq(text, 1, Len(text) - 1))
    ELSE text

startsWith(text, prefix) ==
    Len(text) >= Len(prefix) /\ SubSeq(text, 1, Len(prefix)) = prefix

\* replace(/<marker>\n?/g, ...): every marker goes, with the line break after it
RECURSIVE replaceAll(_, _)
replaceAll(text, marker) ==
    IF text = << >> THEN text
    ELSE IF startsWith(text, marker)
    THEN LET after == SubSeq(text, Len(marker) + 1, Len(text))
         IN  replaceAll(IF after /= << >> /\ Head(after) = Newline THEN Tail(after) ELSE after,
                        marker)
    ELSE << Head(text) >> \o replaceAll(Tail(text), marker)

\* replace(/<fence>\n?$/g, ...): a fence that ends the text goes
replaceAtEnd(text) ==
    IF Len(text) >= 2 /\ SubSeq(text, Len(text) - 1, Len(text)) = << Fence, Newline >>
    THEN SubSeq(text, 1, Len(text) - 2)
    ELSE IF text /= << >> /\ text[Len(text)] = Fence
    THEN SubSeq(text, 1, Len(text) - 1)
    ELSE text

\* "Remove markdown code blocks if present"
cleanedText(responseText) ==
    LET trimmed == trim(responseText)
    IN  IF startsWith(trimmed, << Fence, Tag >>)
        THEN replaceAtEnd(replaceAll(trimmed, << Fence, Tag >>))
        ELSE IF startsWith(trimmed, << Fence >>)
        THEN replaceAll(trimmed, << Fence >>)
        ELSE trimmed

IsText(piece) == piece /= Newline

\* JSON.parse: line breaks between the values are white space
JSONparse(text) == SelectSeq(text, IsText)

NoAnalysis == [present |-> FALSE, analysis |-> << >>]

IdleParse == [payload |-> << >>, tagged |-> FALSE, raw |-> NoAnalysis, fenced |-> NoAnalysis]

(***************************************************************************)
(* State.                                                                  *)
(***************************************************************************)
VARIABLES
    now,             \* Date.now()
    lastClaudeCall,  \* RATE_LIMIT.lastClaudeCall, NoTime for null
    baselineCache,   \* baseline-calculator.js baselineCache {data, calculatedAt}
    dbPoints,        \* successful rows of time_series_data in the window
    dbLatest,        \* latest row of time_series_data
    dbSentiment,     \* summary of twitter_sentiment over the last 24 hours
    triggers,        \* table anomaly_triggers
    anomalies,       \* table anomalies
    cyc,             \* the executions of collectCurrentData / detectAnomalies
    timer,           \* the setInterval of startContinuousCollection
    started,         \* number of collections started
    req,             \* the executions of GET /api/baseline
    aggregations,    \* number of calls of calculateBaselineFromDB
    lastInvokeAt,    \* when analyzeWithClaude was last called
    prevInvokeAt,    \* when it was called the time before
    lastInvokedCheck,\* the latest rate-limit check of a returned cycle that called it
    pf,              \* one evaluation of the pre-filter on its own
    eng,             \* one execution of analyzeWithClaude on its own
    txt,             \* one payload parsed raw and inside a code fence
    man,             \* one execution of POST /api/analysis/generate
    ctx              \* the recent samples of one context document

vars == << now, lastClaudeCall, baselineCache, dbPoints, dbLatest, dbSentiment, triggers, anomalies,
           cyc, timer, started, req, aggregations, lastInvokeAt, prevInvokeAt,
           lastInvokedCheck, pf, eng, txt, man, ctx >>

NoBaseline == [present |-> FALSE]

\* the object built by calculateBaselineFromDB
Baseline(points, days, at) ==
    [present |-> TRUE,
     tvl_avg |-> BaseStats.tvl_avg, tvl_stddev |-> BaseStats.tvl_stddev,
     peg_avg |-> BaseStats.peg_avg, peg_stddev |-> BaseStats.peg_stddev,
     gas_avg |-> BaseStats.gas_avg,
     queue_size_avg |-> BaseStats.queue_size_avg,
     queue_size_stddev |-> BaseStats.queue_size_stddev,
     withdrawals_avg |-> BaseStats.withdrawals_avg,
     withdrawals_stddev |-> BaseStats.withdrawals_stddev,
     data_points |-> points, period_days |-> days, calculated_at |-> at]

NoPrefilter == [present |-> FALSE]
NoClaudeResult == [present |-> FALSE]
NoResult == [present |-> FALSE]

\* the object returned by detectAnomalies
Result(success, reason, claudeCalled, rateLimited, error) ==
    [present |-> TRUE, success |-> success, reason |-> reason,
     claudeCalled |-> claudeCalled, rateLimited |-> rateLimited, error |-> error,
     claudeResult |-> NoClaudeResult]

IdleCycle ==
    [pc |-> "idle",
     currentData |-> NoRow, baselineStats |-> NoBaseline,
     prefilterResult |-> NoPrefilter, triggerRecord |-> 0,
     attempt |-> 0, toStore |-> 0, stored |-> << >>,
     result |-> NoResult, collected |-> FALSE,
     \* history of the execution
     priorCheck |-> NoTime, prefilterRan |-> FALSE, produced |-> FALSE,
     recommended |-> FALSE,
     storeSubmitted |-> FALSE, storeCompleted |-> FALSE,
     checkAt |-> NoTime, lastCallSeen |-> NoTime, allowed |-> FALSE,
     invoked |-> FALSE, wrote |-> FALSE,
     triggerId |-> 0, notified |-> 0]

\* a returned execution whose result its caller has dropped
Forgotten == [IdleCycle EXCEPT !.pc = "done"]

IdleRequest ==
    [pc |-> "idle", days |-> 0, status |-> 0, body |-> NoBaseline,
     \* history of the request
     ageAtStart |-> NoTime, aggregated |-> FALSE, failed |-> FALSE, version |-> 0,
     force |-> FALSE, writesAtStart |-> 0]

\* time_series_data as its timestamps, the clock in collection intervals
IdleContext ==
    [pc |-> "collecting", rows |-> {}, clock |-> 0, gaps |-> 0, hours |-> 0,
     passed |-> << >>, prompt |-> << >>]

IdleManual ==
    [pc |-> "idle", status |-> 0, attempt |-> 0, toStore |-> 0, stored |-> 0,
     \* history of the request
     invoked |-> FALSE, invokeAt |-> NoTime, limitedAtInvoke |-> FALSE]

NoPf == [cur |-> NoRow, base |-> NoBaseline, sent |-> NoSentiment, out |-> NoPrefilter,
         again |-> NoPrefilter]

Init ==
    /\ now = 0
    /\ lastClaudeCall = NoTime
    /\ baselineCache = [data |-> NoBaseline, calculatedAt |-> NoTime, writes |-> 0]
    /\ dbPoints \in InitPoints
    /\ dbLatest = NoRow
    /\ dbSentiment = NoSentiment
    /\ triggers = << >>
    /\ anomalies = << >>
    /\ cyc = [c \in Cycles |-> IdleCycle]
    /\ timer = [armed |-> FALSE, nextFire |-> NoTime, every |-> 0]
    /\ started = 0
    /\ req = [r \in Requests |-> IdleRequest]
    /\ aggregations = 0
    /\ lastInvokeAt = NoTime
    /\ prevInvokeAt = NoTime
    /\ lastInvokedCheck = NoTime
    /\ pf = NoPf
    /\ eng = IdleEngine
    /\ txt = IdleParse
    /\ man = IdleManual
    /\ ctx = IdleContext

(***************************************************************************)
(* Baseline Store Accessor (baseline-calculator.js).                       *)
(***************************************************************************)

\* faulty variant: an entry whose age equals the TTL still counts as valid
isCacheValidInclusive ==
    /\ baselineCache.data.present
    /\ baselineCache.calculatedAt /= NoTime
    /\ now - baselineCache.calculatedAt <= CACHE_TTL

isCacheValid ==
    /\ baselineCache.data.present
    /\ baselineCache.calculatedAt /= NoTime
    /\ now - baselineCache.calculatedAt < CACHE_TTL

\* faulty variant: forceRefresh is ignored
ReturnsCachedIfValid(forceRefresh) == isCacheValid

\* getBaselineStatistics up to its first await: TRUE when it returns the cache
ReturnsCached(forceRefresh) == ~forceRefresh /\ isCacheValid

\* the part of getBaselineStatistics after calculateBaselineFromDB resolved
CacheAfterCalculation(days) ==
    [data |-> Baseline(dbPoints, days, now), calculatedAt |-> now,
     writes |-> baselineCache.writes + 1]

(***************************************************************************)
(* Orchestrator (anomaly-detector.js) and driver (blockchain-collector.js).*)
(***************************************************************************)

Active(c) == cyc[c].pc \notin {"idle", "done"}
InEngine(c) == cyc[c].pc \in {"claude", "insert"}

Set(c, rec) == cyc' = [cyc EXCEPT ![c] = rec]

\* the execution returns: its local variables are gone, its history stays
Finish(c, rec, result) ==
    /\ Set(c, [rec EXCEPT !.pc = "done", !.result = result,
                          !.currentData = NoRow, !.prefilterResult = NoPrefilter,
                          !.attempt = 0, !.toStore = 0, !.stored = << >>,
                          !.triggerRecord = 0])
    /\ lastInvokedCheck' = IF rec.invoked /\ rec.checkAt > lastInvokedCheck
                           THEN rec.checkAt ELSE lastInvokedCheck

\* the execution goes on to its next await
Continue(c, rec) ==
    /\ Set(c, rec)
    /\ UNCHANGED lastInvokedCheck

\* faulty variant: the exception leaves detectAnomalies, no object is returned
ThrownEscapes(c, rec) == Finish(c, rec, NoResult)

\* the catch of detectAnomalies: { success: false, error }
Thrown(c, rec) == Finish(c, rec, Result(FALSE, "none", FALSE, FALSE, TRUE))

\* startContinuousCollection: the first collection, awaited
StartFirst ==
    /\ started = 0
    /\ started' = 1
    /\ Set(1, [cyc[1] EXCEPT !.pc = "collect"])
    /\ UNCHANGED << now, lastClaudeCall, baselineCache, dbPoints, dbLatest, dbSentiment, triggers,
                    anomalies, timer, req, aggregations, lastInvokeAt, prevInvokeAt, lastInvokedCheck, pf, eng, txt, man, ctx >>

\* startContinuousCollection: setInterval is set up when the first collection returned
ArmPending == started >= 1 /\ cyc[1].pc = "done" /\ ~timer.armed

ArmTimer ==
    /\ ArmPending
    /\ \E intervalMs \in Intervals :
         timer' = [armed |-> TRUE, nextFire |-> now + intervalMs, every |-> intervalMs]
    /\ UNCHANGED << now, lastClaudeCall, baselineCache, dbPoints, dbLatest, dbSentiment, triggers,
                    anomalies, cyc, started, req, aggregations, lastInvokeAt, prevInvokeAt, lastInvokedCheck, pf, eng, txt, man, ctx >>

TimerDue == timer.armed /\ now = timer.nextFire /\ started < MaxCycles

\* the setInterval callback: starts collectCurrentData whatever the earlier ones do
IntervalFire ==
    /\ TimerDue
    /\ started' = started + 1
    /\ timer' = [timer EXCEPT !.nextFire = @ + timer.every]
    /\ cyc' = [c \in Cycles |->
                 IF c = started + 1
                 THEN [cyc[c] EXCEPT !.pc = "collect", !.priorCheck = lastInvokedCheck]
                 ELSE IF cyc[c].pc = "done" THEN Forgotten
                 ELSE cyc[c]]
    /\ UNCHANGED << now, lastClaudeCall, baselineCache, dbPoints, dbLatest, dbSentiment, triggers,
                    anomalies, req, aggregations, lastInvokeAt, prevInvokeAt, lastInvokedCheck, pf, eng, txt, man, ctx >>

\* collectCurrentData up to the call of detectAnomalies
Collect(c) ==
    /\ cyc[c].pc = "collect"
    /\ \/ \E in \in Collected :
            /\ dbPoints' = dbPoints + 1
            /\ dbLatest' = Row(in[1], now)
            /\ dbSentiment' = in[2]
            /\ Set(c, [cyc[c] EXCEPT !.pc = "getLatest", !.collected = TRUE])
       \/ /\ dbLatest' = Row(ErrorPoint, now)
          /\ Set(c, [cyc[c] EXCEPT !.pc = "done"])
          /\ UNCHANGED << dbPoints, dbSentiment >>
    /\ UNCHANGED << now, lastClaudeCall, baselineCache, triggers, anomalies, timer,
                    started, req, aggregations, lastInvokeAt, prevInvokeAt, lastInvokedCheck, pf, eng, txt, man, ctx >>

\* faulty variant: the floor of the manual analysis route (12 data points)
BelowFloorOfOneHour(stats) == stats.data_points < MANUAL_MIN_DATA_POINTS

\* baselineStats.data_points < MIN_DATA_POINTS
BelowFloor(stats) == stats.data_points < MIN_DATA_POINTS

\* the check of MIN_DATA_POINTS that follows getBaselineStatistics
AfterBaseline(c, rec, stats) ==
    IF BelowFloor(stats)
    THEN Finish(c, [rec EXCEPT !.baselineStats = stats],
                Result(FALSE, "Insufficient baseline data", FALSE, FALSE, FALSE))
    ELSE Continue(c, [rec EXCEPT !.baselineStats = stats, !.pc = "sentiment"])

\* 1. getLatestTimeSeriesData resolves; 2. getBaselineStatistics(30) is called
GetLatest(c) ==
    /\ cyc[c].pc = "getLatest"
    /\ \/ /\ Thrown(c, cyc[c])
          /\ UNCHANGED aggregations
       \/ LET rec == [cyc[c] EXCEPT !.currentData = dbLatest]
          IN  IF ~dbLatest.present
              THEN /\ Finish(c, rec, Result(FALSE, "No data available", FALSE, FALSE, FALSE))
                   /\ UNCHANGED aggregations
              ELSE IF ReturnsCached(FALSE)
              THEN /\ AfterBaseline(c, rec, baselineCache.data)
                   /\ UNCHANGED aggregations
              ELSE /\ Continue(c, [rec EXCEPT !.pc = "calcBaseline"])
                   /\ aggregations' = aggregations + 1
    /\ UNCHANGED << now, lastClaudeCall, baselineCache, dbPoints, dbLatest, dbSentiment, triggers,
                    anomalies, timer, started, req, lastInvokeAt, prevInvokeAt, pf, eng, txt, man, ctx >>

\* calculateBaselineFromDB(30) resolves or rejects inside getBaselineStatistics
CalcBaseline(c) ==
    /\ cyc[c].pc = "calcBaseline"
    /\ \/ /\ baselineCache' = CacheAfterCalculation(30)
          /\ AfterBaseline(c, cyc[c], baselineCache'.data)
       \/ /\ IF baselineCache.data.present
             THEN AfterBaseline(c, cyc[c], baselineCache.data)
             ELSE Thrown(c, cyc[c])
          /\ UNCHANGED baselineCache
    /\ UNCHANGED << now, lastClaudeCall, dbPoints, dbLatest, dbSentiment, triggers, anomalies, timer,
                    started, req, aggregations, lastInvokeAt, prevInvokeAt, pf, eng, txt, man, ctx >>

\* faulty variant: only an anomalous result is stored
StoresTriggerIfAnomalous(out) == out.isAnomalous

\* 5. storeTriggerResult is called for every result of the pre-filter
StoresTrigger(out) == TRUE

\* 3. getRecentSentiment resolves (null when there are no tweets or the query
\* failed); 4. the pre-filter runs; 5. storeTriggerResult is called
Prefilter(c) ==
    /\ cyc[c].pc = "sentiment"
    /\ \E sent \in {dbSentiment, NoSentiment} :
         LET out == analyzeStatisticalAnomalies(cyc[c].currentData, cyc[c].baselineStats, sent, now)
         IN  IF out.thrown
             THEN Thrown(c, [cyc[c] EXCEPT !.prefilterRan = TRUE])
             ELSE Continue(c, [cyc[c] EXCEPT !.pc = "store", !.prefilterRan = TRUE,
                               !.produced = TRUE, !.recommended = out.shouldCallClaude,
                               !.storeSubmitted = StoresTrigger(out),
                               !.prefilterResult = [out EXCEPT !.thrown = FALSE] @@ [present |-> TRUE]])
    /\ UNCHANGED << now, lastClaudeCall, baselineCache, dbPoints, dbLatest, dbSentiment, triggers,
                    anomalies, timer, started, req, aggregations, lastInvokeAt, prevInvokeAt, pf, eng, txt, man, ctx >>

\* JSON.stringify(prefilterResult.triggers) as the JSONB column gives it back:
\* an array in the same order, each object with its own properties
Jsonb(list) ==
    [i \in DOMAIN list |-> [metric |-> list[i].metric, severity |-> list[i].severity]]

\* the row inserted by storeTriggerResult: the columns of anomaly_triggers
TriggerRow(id, c, out, currentData, baselineStats) ==
    [id |-> id, cycle |-> c, timestamp |-> out.timestamp,
     is_anomalous |-> out.isAnomalous, should_call_claude |-> out.shouldCallClaude,
     triggers |-> Jsonb(out.triggers),
     current_data |-> [tvl_eth |-> currentData.tvl_eth,
                       eeth_eth_ratio |-> currentData.eeth_eth_ratio,
                       avg_gas_price_gwei |-> currentData.avg_gas_price_gwei,
                       queue_size |-> currentData.queue_size,
                       withdrawals_24h |-> currentData.withdrawals_24h],
     baseline_stats |-> [tvl_avg |-> baselineStats.tvl_avg,
                         peg_avg |-> baselineStats.peg_avg,
                         gas_avg |-> baselineStats.gas_avg],
     claude_called |-> FALSE, claude_call_timestamp |-> NoTime, anomaly_id |-> 0]

\* faulty variant: the interval has to be exceeded, not merely reached
RateAllowedStrict(lastCall) ==
    lastCall = NoTime \/ now - lastCall > minIntervalMs

\* checkRateLimit, given what getLastClaudeCallTime returned
RateAllowed(lastCall) ==
    lastCall = NoTime \/ now - lastCall >= minIntervalMs

\* the object returned by a cycle that is rate limited
RateLimitedResult == Result(TRUE, "Rate limited", FALSE, TRUE, FALSE)

\* 7. the outcome of checkRateLimit in detectAnomalies
Decide(c, rec, lastCall) ==
    IF RateAllowed(lastCall)
    THEN Continue(c, [rec EXCEPT !.pc = "recent", !.checkAt = now,
                                 !.lastCallSeen = lastCall, !.allowed = TRUE])
    ELSE Finish(c, [rec EXCEPT !.checkAt = now, !.lastCallSeen = lastCall],
                RateLimitedResult)

\* faulty variant: a cycle without recommendation goes on to the rate limit
NeedsClaudeAlways(out) == TRUE

\* 6. the test of prefilterResult.shouldCallClaude
NeedsClaude(out) == out.shouldCallClaude

\* the object returned by a cycle that needs no escalation
CalmResult == Result(TRUE, "No significant anomalies detected", FALSE, FALSE, FALSE)

\* 5. storeTriggerResult resolves (null when the insert failed);
\* 6. shouldCallClaude is tested; 7. checkRateLimit reads the in-memory time
Store(c) ==
    /\ cyc[c].pc = "store"
    /\ \E inserted \in BOOLEAN :
         LET ok == inserted /\ cyc[c].storeSubmitted
             id == Len(triggers) + 1
             rec == [cyc[c] EXCEPT !.triggerRecord = IF ok THEN id ELSE 0,
                                   !.triggerId = IF ok THEN id ELSE 0,
                                   !.storeCompleted = cyc[c].storeSubmitted]
         IN  /\ triggers' = IF ok
                            THEN Append(triggers, TriggerRow(id, c, cyc[c].prefilterResult,
                                                          cyc[c].currentData, cyc[c].baselineStats))
                            ELSE triggers
             /\ IF ~NeedsClaude(cyc[c].prefilterResult)
                THEN Finish(c, rec, CalmResult)
                ELSE IF lastClaudeCall /= NoTime
                THEN Decide(c, rec, lastClaudeCall)
                ELSE Continue(c, [rec EXCEPT !.pc = "rateDb"])
    /\ UNCHANGED << now, lastClaudeCall, baselineCache, dbPoints, dbLatest, dbSentiment, anomalies,
                    timer, started, req, aggregations, lastInvokeAt, prevInvokeAt, pf, eng, txt, man, ctx >>

RECURSIVE LastCallInStore(_)
LastCallInStore(rows) ==
    IF rows = << >> THEN NoTime
    ELSE LET rest == LastCallInStore(Tail(rows))
             row == Head(rows)
         IN  IF row.claude_called /\ row.claude_call_timestamp > rest
             THEN row.claude_call_timestamp ELSE rest

\* faulty variant: a failed read counts as a call made just now
LastCallUnreadableBlocks == now

\* the catch of getLastClaudeCallTime: return null
LastCallUnreadable == NoTime

\* getLastClaudeCallTime: the query of anomaly_triggers resolves or rejects
RateDb(c) ==
    /\ cyc[c].pc = "rateDb"
    /\ \/ /\ Decide(c, cyc[c], LastCallUnreadable)
          /\ UNCHANGED lastClaudeCall
       \/ LET lastCall == LastCallInStore(triggers)
          IN  IF lastCall /= NoTime
              THEN /\ lastClaudeCall' = lastCall
                   /\ Decide(c, cyc[c], lastCall)
              ELSE /\ Decide(c, cyc[c], NoTime)
                   /\ UNCHANGED lastClaudeCall
    /\ UNCHANGED << now, baselineCache, dbPoints, dbLatest, dbSentiment, triggers, anomalies,
                    timer, started, req, aggregations, lastInvokeAt, prevInvokeAt, pf, eng, txt, man, ctx >>

\* 8. getTimeSeriesData(2) resolves or rejects; 9. analyzeWithClaude is called
Recent(c) ==
    /\ cyc[c].pc = "recent"
    /\ \/ /\ Thrown(c, cyc[c])
          /\ UNCHANGED << lastInvokeAt, prevInvokeAt >>
       \/ /\ Continue(c, [cyc[c] EXCEPT !.pc = "claude", !.attempt = 1, !.invoked = TRUE])
          /\ lastInvokeAt' = now
          /\ prevInvokeAt' = lastInvokeAt
    /\ UNCHANGED << now, lastClaudeCall, baselineCache, dbPoints, dbLatest, dbSentiment, triggers,
                    anomalies, timer, started, req, aggregations, pf, eng, txt, man, ctx >>

ClaudeFailure == [present |-> TRUE, success |-> FALSE, anomalies |-> << >>]
ClaudeSuccess(ids) == [present |-> TRUE, success |-> TRUE, anomalies |-> ids]

\* faulty variant of the rate limit update: nothing is recorded
LastCallAfterNever(res) == lastClaudeCall

\* 10. RATE_LIMIT.lastClaudeCall = new Date(), whatever claudeResult is
LastCallAfter(res) == now

\* the object returned by detectAnomalies at its end
ClaudeCalledResult(res) ==
    [Result(TRUE, "none", TRUE, FALSE, FALSE) EXCEPT !.claudeResult = res]

\* the forEach over claudeResult.anomalies inside one try: how many times
\* broadcastAnomalyDetected is called; fewer than n when one of the calls throws
Broadcasts(n) == 1..n

\* detectAnomalies from the return of analyzeWithClaude (steps 10 and 11)
ClaudeReturns(c, rec, res) ==
    /\ lastClaudeCall' = LastCallAfter(res)
    /\ LET rec2 == [rec EXCEPT !.wrote = TRUE,
                               !.result = ClaudeCalledResult(res)]
       IN  IF res.success /\ Len(res.anomalies) > 0
           THEN IF rec.triggerRecord /= 0
                THEN Continue(c, [rec2 EXCEPT !.pc = "link"])
                ELSE \E calls \in Broadcasts(Len(res.anomalies)) :
                       Finish(c, [rec2 EXCEPT !.notified = calls], rec2.result)
           ELSE Finish(c, rec2, rec2.result)

\* callClaudeAPI: one attempt of anthropic.messages.create ends; on success
\* parseClaudeResponse runs
Claude(c) ==
    /\ cyc[c].pc = "claude"
    /\ \/ IF cyc[c].attempt < maxRetries
          THEN /\ Continue(c, [cyc[c] EXCEPT !.attempt = @ + 1])
               /\ UNCHANGED lastClaudeCall
          ELSE ClaudeReturns(c, cyc[c], ClaudeFailure)
       \/ ClaudeReturns(c, cyc[c], ClaudeFailure)
       \/ ClaudeReturns(c, cyc[c], ClaudeSuccess(<< >>))
       \/ \E n \in 1..MaxFindings :
            /\ Continue(c, [cyc[c] EXCEPT !.pc = "insert", !.toStore = n])
            /\ UNCHANGED lastClaudeCall
    /\ UNCHANGED << now, baselineCache, dbPoints, dbLatest, dbSentiment, triggers, anomalies,
                    timer, started, req, aggregations, lastInvokeAt, prevInvokeAt, pf, eng, txt, man, ctx >>

\* storeAnalysisResults: one insertAnomaly resolves or rejects
Insert(c) ==
    /\ cyc[c].pc = "insert"
    /\ \/ LET id == Len(anomalies) + 1
              rec == [cyc[c] EXCEPT !.stored = Append(@, id)]
          IN  /\ anomalies' = Append(anomalies, [id |-> id, cycle |-> c])
              /\ IF Len(rec.stored) = rec.toStore
                 THEN ClaudeReturns(c, rec, ClaudeSuccess(rec.stored))
                 ELSE /\ Continue(c, rec)
                      /\ UNCHANGED lastClaudeCall
       \/ /\ ClaudeReturns(c, cyc[c], ClaudeFailure)
          /\ UNCHANGED anomalies
    /\ UNCHANGED << now, baselineCache, dbPoints, dbLatest, dbSentiment, triggers,
                    timer, started, req, aggregations, lastInvokeAt, prevInvokeAt, pf, eng, txt, man, ctx >>

\* faulty variant: the update also clears should_call_claude
updateTriggerAndRecommendation(row, anomalyId) ==
    [row EXCEPT !.claude_called = TRUE, !.claude_call_timestamp = now,
                !.anomaly_id = anomalyId, !.should_call_claude = FALSE]

\* the UPDATE of updateTriggerWithAnomaly: SET claude_called = true,
\* claude_call_timestamp = NOW(), anomaly_id = $1
updateTriggerWithAnomaly(row, anomalyId) ==
    [row EXCEPT !.claude_called = TRUE, !.claude_call_timestamp = now,
                !.anomaly_id = anomalyId]

\* 11. updateTriggerWithAnomaly resolves (its failure is logged), then the broadcast
Link(c) ==
    /\ cyc[c].pc = "link"
    /\ \/ triggers' = [triggers EXCEPT ![cyc[c].triggerRecord] =
                          updateTriggerWithAnomaly(@, cyc[c].result.claudeResult.anomalies[1])]
       \/ UNCHANGED triggers
    /\ \E calls \in Broadcasts(Len(cyc[c].result.claudeResult.anomalies)) :
         Finish(c, [cyc[c] EXCEPT !.notified = calls], cyc[c].result)
    /\ UNCHANGED << now, lastClaudeCall, baselineCache, dbPoints, dbLatest, dbSentiment, anomalies,
                    timer, started, req, aggregations, lastInvokeAt, prevInvokeAt, pf, eng, txt, man, ctx >>

(***************************************************************************)
(* GET /api/baseline (routes/baseline.js).                                 *)
(***************************************************************************)

\* the age of the cache entry as a call of getBaselineStatistics finds it
CacheAge == IF baselineCache.data.present /\ baselineCache.calculatedAt /= NoTime
            THEN now - baselineCache.calculatedAt ELSE NoTime

\* res.json / res.status(500).json
Respond(r, rec, status, body, cache) ==
    req' = [req EXCEPT ![r] = [rec EXCEPT !.pc = "done", !.status = status, !.body = body,
                                          !.version = cache.writes]]

\* the handler up to the first await of getBaselineStatistics(days)
RouteStart(r) ==
    /\ req[r].pc = "idle"
    /\ \E days \in RouteDays :
         LET rec == [req[r] EXCEPT !.days = days, !.ageAtStart = CacheAge,
                                  !.writesAtStart = baselineCache.writes]
         IN  IF ReturnsCached(FALSE)
             THEN /\ Respond(r, rec, 200, baselineCache.data, baselineCache)
                  /\ UNCHANGED aggregations
             ELSE /\ req' = [req EXCEPT ![r] = [rec EXCEPT !.pc = "calc", !.aggregated = TRUE]]
                  /\ aggregations' = aggregations + 1
    /\ UNCHANGED << now, lastClaudeCall, baselineCache, dbPoints, dbLatest, dbSentiment,
                    triggers, anomalies, cyc, timer, started, lastInvokeAt, prevInvokeAt,
                    lastInvokedCheck, pf, eng, txt, man, ctx >>

\* calculateBaselineFromDB(days) resolves or rejects; the response is sent
RouteCalc(r) ==
    /\ req[r].pc = "calc"
    /\ \/ /\ baselineCache' = CacheAfterCalculation(req[r].days)
          /\ Respond(r, req[r], 200, baselineCache'.data, baselineCache')
       \/ LET rec == [req[r] EXCEPT !.failed = TRUE]
          IN  /\ UNCHANGED baselineCache
              /\ IF baselineCache.data.present
                 THEN Respond(r, rec, 200, baselineCache.data, baselineCache)
                 ELSE Respond(r, rec, 500, NoBaseline, baselineCache)
    /\ UNCHANGED << now, lastClaudeCall, dbPoints, dbLatest, dbSentiment, triggers,
                    anomalies, cyc, timer, started, aggregations, lastInvokeAt,
                    prevInvokeAt, lastInvokedCheck, pf, eng, txt, man, ctx >>

(***************************************************************************)
(* Time and the specification.                                             *)
(***************************************************************************)

\* A round trip to the store ends within the unit of time it started in;
\* the clock advances while a call of the external
\* service is outstanding and while the driver waits for its timer.
Waiting ==
    \/ \E c \in Cycles : cyc[c].pc = "claude"
    \/ /\ \A c \in Cycles : ~Active(c)
       /\ \A r \in Requests : req[r].pc /= "calc"
       /\ timer.armed /\ started < MaxCycles

Tick ==
    /\ now < MaxTime
    /\ Waiting
    /\ \A c \in Cycles : cyc[c].pc = "claude" => now - cyc[c].checkAt < MaxCallTime
    /\ ~TimerDue
    /\ ~ArmPending
    /\ now' = now + 1
    /\ UNCHANGED << lastClaudeCall, baselineCache, dbPoints, dbLatest, dbSentiment, triggers, anomalies,
                    cyc, timer, started, req, aggregations, lastInvokeAt, prevInvokeAt, lastInvokedCheck, pf, eng, txt, man, ctx >>

Next ==
    \/ StartFirst
    \/ ArmTimer
    \/ IntervalFire
    \/ Tick
    \/ \E c \in Cycles :
         \/ Collect(c)
         \/ GetLatest(c)
         \/ CalcBaseline(c)
         \/ Prefilter(c)
         \/ Store(c)
         \/ RateDb(c)
         \/ Recent(c)
         \/ Claude(c)
         \/ Insert(c)
         \/ Link(c)

\* the collector with its detection cycles
Spec == Init /\ [][Next]_vars

(***************************************************************************)
(* The Baseline Store Accessor under requests of GET /api/baseline while   *)
(* the collectors add rows to the store.                                   *)
(***************************************************************************)

\* a collector inserts a row of time_series_data; the store is followed
\* while the row takes the window up to one of the two floors
RowStored ==
    /\ dbPoints + 1 \in {MANUAL_MIN_DATA_POINTS, MIN_DATA_POINTS}
    /\ dbPoints' = dbPoints + 1
    /\ UNCHANGED << now, lastClaudeCall, baselineCache, dbLatest, dbSentiment, triggers,
                    anomalies, cyc, timer, started, req, aggregations,
                    lastInvokeAt, prevInvokeAt, lastInvokedCheck, pf, eng, txt, man, ctx >>

TimePasses ==
    /\ now < MaxTime
    /\ now' = now + 1
    /\ UNCHANGED << lastClaudeCall, baselineCache, dbPoints, dbLatest, dbSentiment,
                    triggers, anomalies, cyc, timer, started, req, aggregations,
                    lastInvokeAt, prevInvokeAt, lastInvokedCheck, pf, eng, txt, man, ctx >>

NextBaseline ==
    \/ RowStored
    \/ TimePasses
    \/ \E r \in Requests :
         \/ RouteStart(r)
         \/ RouteCalc(r)

InitBaseline ==
    /\ Init!1 /\ Init!2 /\ Init!3
    /\ dbPoints \in InitPointsBaseline
    /\ dbLatest = NoRow
    /\ dbSentiment = NoSentiment
    /\ triggers = << >>
    /\ anomalies = << >>
    /\ cyc = [c \in Cycles |-> IdleCycle]
    /\ timer = [armed |-> FALSE, nextFire |-> NoTime, every |-> 0]
    /\ started = 0
    /\ req = [r \in Requests |-> IdleRequest]
    /\ aggregations = 0
    /\ lastInvokeAt = NoTime
    /\ prevInvokeAt = NoTime
    /\ lastInvokedCheck = NoTime
    /\ pf = NoPf
    /\ eng = IdleEngine
    /\ txt = IdleParse
    /\ man = IdleManual
    /\ ctx = IdleContext

SpecBaseline == InitBaseline /\ [][NextBaseline]_vars

\* a caller of getBaselineStatistics(30, true), as POST /api/analysis/generate
\* is, up to the first await
ForcedStart(r) ==
    /\ req[r].pc = "idle"
    /\ LET rec == [req[r] EXCEPT !.days = 30, !.force = TRUE, !.ageAtStart = CacheAge,
                                 !.writesAtStart = baselineCache.writes]
       IN  IF ReturnsCached(TRUE)
           THEN /\ Respond(r, rec, 200, baselineCache.data, baselineCache)
                /\ UNCHANGED aggregations
           ELSE /\ req' = [req EXCEPT ![r] = [rec EXCEPT !.pc = "calc", !.aggregated = TRUE]]
                /\ aggregations' = aggregations + 1
    /\ UNCHANGED << now, lastClaudeCall, baselineCache, dbPoints, dbLatest, dbSentiment,
                    triggers, anomalies, cyc, timer, started, lastInvokeAt, prevInvokeAt,
                    lastInvokedCheck, pf, eng, txt, man, ctx >>

NextRefresh ==
    \/ RowStored
    \/ TimePasses
    \/ \E r \in Requests :
         \/ RouteStart(r)
         \/ ForcedStart(r)
         \/ RouteCalc(r)

\* the cache is empty, or holds what the first detection cycle calculated
InitRefresh ==
    /\ now = 0
    /\ lastClaudeCall = NoTime
    /\ dbPoints \in InitPointsBaseline
    /\ baselineCache \in {[data |-> NoBaseline, calculatedAt |-> NoTime, writes |-> 0],
                          [data |-> Baseline(dbPoints, 30, 0), calculatedAt |-> 0, writes |-> 1]}
    /\ dbLatest = NoRow
    /\ dbSentiment = NoSentiment
    /\ triggers = << >>
    /\ anomalies = << >>
    /\ cyc = [c \in Cycles |-> IdleCycle]
    /\ timer = [armed |-> FALSE, nextFire |-> NoTime, every |-> 0]
    /\ started = 0
    /\ req = [r \in Requests |-> IdleRequest]
    /\ aggregations = 0
    /\ lastInvokeAt = NoTime
    /\ prevInvokeAt = NoTime
    /\ lastInvokedCheck = NoTime
    /\ pf = NoPf
    /\ eng = IdleEngine
    /\ txt = IdleParse
    /\ man = IdleManual
    /\ ctx = IdleContext

\* the accessor under callers with and without forceRefresh
SpecRefresh == InitRefresh /\ [][NextRefresh]_vars

(***************************************************************************)
(* The pre-filter on its own, over a grid of inputs.                       *)
(***************************************************************************)

PfRows ==
    { [tvl_eth |-> tvl, eeth_eth_ratio |-> peg, avg_gas_price_gwei |-> gas,
       queue_size |-> queue, withdrawals_24h |-> wd,
       decimalsAsStrings |-> str, timestamp |-> 0, present |-> TRUE] :
      tvl \in {NoValue, 0, 880, 1000, 1100, 1125, 1150},
      peg \in {0, 987, 995, 997, 1000},
      gas \in {5, 10, 20, 50},
      queue \in {0, 10, 14, 15, 16},
      wd \in {5, 10},
      str \in BOOLEAN }

\* snapshots handed over by a caller without a timestamp
PfUntimed ==
    { [Row(DataPoint(1000, 1000, 5, 10, 10), NoTime) EXCEPT !.decimalsAsStrings = FALSE],
      [Row(DataPoint(1000, 1000, 5, 16, 10), NoTime) EXCEPT !.decimalsAsStrings = FALSE] }

PfBaselines ==
    { Baseline(60, 30, 0), [Baseline(60, 30, 0) EXCEPT !.tvl_stddev = 0],
      [Baseline(60, 30, 0) EXCEPT !.tvl_stddev = NoValue, !.queue_size_stddev = 0,
                                  !.withdrawals_stddev = 0] }

PfSentiments ==
    { NoSentiment, NegativeSentiment,
      [present |-> TRUE, negative_pct |-> 6, avg_sentiment |-> -4],
      [present |-> TRUE, negative_pct |-> 1, avg_sentiment |-> 2] }

InitPrefilter ==
    /\ Init!1 /\ Init!2 /\ Init!3
    /\ dbPoints = 47
    /\ dbLatest = NoRow
    /\ dbSentiment = NoSentiment
    /\ triggers = << >>
    /\ anomalies = << >>
    /\ cyc = [c \in Cycles |-> IdleCycle]
    /\ timer = [armed |-> FALSE, nextFire |-> NoTime, every |-> 0]
    /\ started = 0
    /\ req = [r \in Requests |-> IdleRequest]
    /\ aggregations = 0
    /\ lastInvokeAt = NoTime
    /\ prevInvokeAt = NoTime
    /\ lastInvokedCheck = NoTime
    /\ pf \in [cur : PfRows \cup PfUntimed, base : PfBaselines, sent : PfSentiments,
               out : {NoPrefilter}, again : {NoPrefilter}]
    /\ eng = IdleEngine
    /\ txt = IdleParse
    /\ man = IdleManual
    /\ ctx = IdleContext

Evaluate ==
    /\ ~pf.out.present
    /\ pf' = [pf EXCEPT !.out = analyzeStatisticalAnomalies(pf.cur, pf.base, pf.sent, now)
                                  @@ [present |-> TRUE]]
    /\ UNCHANGED << now, lastClaudeCall, baselineCache, dbPoints, dbLatest, dbSentiment,
                    triggers, anomalies, cyc, timer, started, req, aggregations,
                    lastInvokeAt, prevInvokeAt, lastInvokedCheck, eng, txt, man, ctx >>

\* the clock moves on between two evaluations
Later ==
    /\ pf.out.present /\ ~pf.again.present
    /\ now = 0
    /\ TimePasses

\* a second evaluation with the same arguments
EvaluateAgain ==
    /\ pf.out.present /\ ~pf.again.present
    /\ pf' = [pf EXCEPT !.again = analyzeStatisticalAnomalies(pf.cur, pf.base, pf.sent, now)
                                    @@ [present |-> TRUE]]
    /\ UNCHANGED << now, lastClaudeCall, baselineCache, dbPoints, dbLatest, dbSentiment,
                    triggers, anomalies, cyc, timer, started, req, aggregations,
                    lastInvokeAt, prevInvokeAt, lastInvokedCheck, eng, txt, man, ctx >>

NextPrefilter ==
    \/ Evaluate
    \/ Later
    \/ EvaluateAgain

SpecPrefilter == InitPrefilter /\ [][NextPrefilter]_vars

(***************************************************************************)
(* One execution of analyzeWithClaude on its own.                          *)
(***************************************************************************)
rest == << now, lastClaudeCall, baselineCache, dbPoints, dbLatest, dbSentiment, triggers,
           anomalies, cyc, timer, started, req, aggregations, lastInvokeAt, prevInvokeAt,
           lastInvokedCheck, pf, txt, man, ctx >>

InitEngine ==
    /\ Init!1 /\ Init!2 /\ Init!3
    /\ dbPoints = 47
    /\ dbLatest = NoRow
    /\ dbSentiment = NoSentiment
    /\ triggers = << >>
    /\ anomalies = << >>
    /\ cyc = [c \in Cycles |-> IdleCycle]
    /\ timer = [armed |-> FALSE, nextFire |-> NoTime, every |-> 0]
    /\ started = 0
    /\ req = [r \in Requests |-> IdleRequest]
    /\ aggregations = 0
    /\ lastInvokeAt = NoTime
    /\ prevInvokeAt = NoTime
    /\ lastInvokedCheck = NoTime
    /\ pf = NoPf
    /\ eng = IdleEngine
    /\ txt = IdleParse
    /\ man = IdleManual
    /\ ctx = IdleContext

AnalysisFailed == [present |-> TRUE, success |-> FALSE, anomalies |-> 0]

AnalysisSucceeded(n) == [present |-> TRUE, success |-> TRUE, anomalies |-> n]

\* analyzeWithClaude builds the prompt and makes the first call
Analyze ==
    /\ eng.pc = "idle"
    /\ eng' = [eng EXCEPT !.pc = "calling", !.attempt = 1, !.calls = 1]
    /\ UNCHANGED rest

MayRetry(attempt) == attempt < maxRetries

\* the call of the external service fails: retry after the backoff or give up
ApiFails ==
    /\ eng.pc = "calling"
    /\ IF MayRetry(eng.attempt)
       THEN eng' = [eng EXCEPT !.pc = "backoff", !.failures = @ + 1,
                               !.delays = Append(@, Backoff(eng.attempt))]
       ELSE eng' = [eng EXCEPT !.pc = "returned", !.failures = @ + 1,
                               !.result = AnalysisFailed]
    /\ UNCHANGED rest

\* the timer of the backoff fires and the next attempt is made
BackoffEnds ==
    /\ eng.pc = "backoff"
    /\ eng' = [eng EXCEPT !.pc = "calling", !.attempt = @ + 1, !.calls = @ + 1]
    /\ UNCHANGED rest

\* the external service answers with a text; the text is parsed and validated
ApiAnswers ==
    /\ eng.pc = "calling"
    /\ \E json \in BOOLEAN, batch \in Batches :
         LET analysis == parseClaudeResponse(batch) IN
         /\ ~json => batch = << >>
         /\ eng' = IF ~json \/ analysis.thrown
                   THEN [eng EXCEPT !.pc = "returned", !.answered = TRUE,
                                    !.batch = batch, !.rejected = TRUE,
                                    !.result = AnalysisFailed]
                   ELSE IF analysis.anomalies = << >>
                   THEN [eng EXCEPT !.pc = "returned", !.answered = TRUE,
                                    !.batch = batch, !.result = AnalysisSucceeded(0)]
                   ELSE [eng EXCEPT !.pc = "store", !.answered = TRUE,
                                    !.batch = batch, !.parsed = analysis.anomalies]
    /\ UNCHANGED rest

\* storeAnalysisResults: one insertAnomaly of the loop resolves
InsertAnomaly ==
    /\ eng.pc = "store"
    /\ LET inserted == Append(eng.stored, eng.parsed[Len(eng.stored) + 1]) IN
       eng' = IF Len(inserted) = Len(eng.parsed)
              THEN [eng EXCEPT !.pc = "returned", !.stored = inserted,
                               !.result = AnalysisSucceeded(Len(inserted))]
              ELSE [eng EXCEPT !.stored = inserted]
    /\ UNCHANGED rest

\* storeAnalysisResults: one insertAnomaly of the loop rejects
InsertAnomalyFails ==
    /\ eng.pc = "store"
    /\ eng' = [eng EXCEPT !.pc = "returned", !.insertFailed = TRUE,
                          !.result = AnalysisFailed]
    /\ UNCHANGED rest

EngineStep ==
    \/ Analyze
    \/ BackoffEnds
    \/ InsertAnomaly
    \/ InsertAnomalyFails

NextEngine ==
    \/ EngineStep
    \/ ApiFails
    \/ ApiAnswers

\* the program and the database take their steps; the external service may
\* never answer
SpecEngine == InitEngine /\ [][NextEngine]_vars /\ WF_vars(EngineStep)

(***************************************************************************)
(* parseClaudeResponse on a payload and on the same payload in a fence.    *)
(***************************************************************************)
InitParse ==
    /\ Init!1 /\ Init!2 /\ Init!3
    /\ dbPoints = 47
    /\ dbLatest = NoRow
    /\ dbSentiment = NoSentiment
    /\ triggers = << >>
    /\ anomalies = << >>
    /\ cyc = [c \in Cycles |-> IdleCycle]
    /\ timer = [armed |-> FALSE, nextFire |-> NoTime, every |-> 0]
    /\ started = 0
    /\ req = [r \in Requests |-> IdleRequest]
    /\ aggregations = 0
    /\ lastInvokeAt = NoTime
    /\ prevInvokeAt = NoTime
    /\ lastInvokedCheck = NoTime
    /\ pf = NoPf
    /\ eng = IdleEngine
    /\ txt \in [payload : Payloads, tagged : BOOLEAN, raw : {NoAnalysis},
                fenced : {NoAnalysis}]
    /\ man = IdleManual
    /\ ctx = IdleContext

Parsed(text) == [present |-> TRUE, analysis |-> JSONparse(cleanedText(text))]

ParseRaw ==
    /\ ~txt.raw.present
    /\ txt' = [txt EXCEPT !.raw = Parsed(txt.payload)]
    /\ UNCHANGED << now, lastClaudeCall, baselineCache, dbPoints, dbLatest, dbSentiment,
                    triggers, anomalies, cyc, timer, started, req, aggregations,
                    lastInvokeAt, prevInvokeAt, lastInvokedCheck, pf, eng, man, ctx >>

ParseFenced ==
    /\ ~txt.fenced.present
    /\ txt' = [txt EXCEPT !.fenced = Parsed(Fenced(txt.payload, txt.tagged))]
    /\ UNCHANGED << now, lastClaudeCall, baselineCache, dbPoints, dbLatest, dbSentiment,
                    triggers, anomalies, cyc, timer, started, req, aggregations,
                    lastInvokeAt, prevInvokeAt, lastInvokedCheck, pf, eng, man, ctx >>

NextParse ==
    \/ ParseRaw
    \/ ParseFenced

SpecParse == InitParse /\ [][NextParse]_vars

(***************************************************************************)
(* POST /api/analysis/generate, the manual analysis, next to the collector.*)
(***************************************************************************)
\* The process when the request arrives: the first collection has returned
\* at time 0 and the interval callback has just started the second one.
\* The first collection failed (an error row was written), or it stored the
\* trigger of its pre-filter result and either needed no escalation or called
\* the engine, which reported no finding.
InitManual ==
    /\ \E every \in Intervals :
         /\ now = every
         /\ timer = [armed |-> TRUE, nextFire |-> 2 * every, every |-> every]
    /\ started = 2
    /\ anomalies = << >>
    /\ prevInvokeAt = NoTime
    /\ \/ /\ dbPoints = 11
          /\ dbLatest = Row(ErrorPoint, 0)
          /\ dbSentiment = NoSentiment
          /\ baselineCache = [data |-> NoBaseline, calculatedAt |-> NoTime, writes |-> 0]
          /\ aggregations = 0
          /\ triggers = << >>
          /\ lastClaudeCall = NoTime
          /\ lastInvokeAt = NoTime
          /\ lastInvokedCheck = NoTime
       \/ \E in \in Collected :
            LET stats == Baseline(48, 30, 0)
                out == analyzeStatisticalAnomalies(Row(in[1], 0), stats, in[2], 0)
                called == IF out.shouldCallClaude THEN 0 ELSE NoTime
            IN  /\ ~out.thrown
                /\ dbPoints = 48
                /\ dbLatest = Row(in[1], 0)
                /\ dbSentiment = in[2]
                /\ baselineCache = [data |-> stats, calculatedAt |-> 0, writes |-> 1]
                /\ aggregations = 1
                /\ triggers = << TriggerRow(1, 1, out, Row(in[1], 0), stats) >>
                /\ lastClaudeCall = called
                /\ lastInvokeAt = called
                /\ lastInvokedCheck = called
    /\ cyc = [c \in Cycles |->
                IF c = 1 THEN Forgotten
                ELSE IF c = 2
                THEN [IdleCycle EXCEPT !.pc = "collect", !.priorCheck = lastInvokedCheck]
                ELSE IdleCycle]
    /\ req = [r \in Requests |-> IdleRequest]
    /\ pf = NoPf
    /\ eng = IdleEngine
    /\ txt = IdleParse
    /\ man = IdleManual
    /\ ctx = IdleContext

\* res.json / res.status(...).json
ManualResponds(rec, status) ==
    man' = [rec EXCEPT !.pc = "done", !.status = status, !.attempt = 0, !.toStore = 0,
                       !.stored = 0]

\* baselineStats.data_points < MIN_DATA_POINTS of the route
ManualBelowFloor(stats) == stats.data_points < MANUAL_MIN_DATA_POINTS

\* 1. getLatestTimeSeriesData resolves or rejects; 2. getBaselineStatistics(30,
\* true) is called: the cache is not consulted
ManualLatest ==
    /\ man.pc = "idle"
    /\ \/ /\ ManualResponds(man, 500)
          /\ UNCHANGED aggregations
       \/ IF ~dbLatest.present
          THEN /\ ManualResponds(man, 404)
               /\ UNCHANGED aggregations
          ELSE /\ man' = [man EXCEPT !.pc = "baseline"]
               /\ aggregations' = aggregations + 1
    /\ UNCHANGED << now, lastClaudeCall, baselineCache, dbPoints, dbLatest, dbSentiment,
                    triggers, anomalies, cyc, timer, started, req, lastInvokeAt,
                    prevInvokeAt, lastInvokedCheck, pf, eng, txt, ctx >>

\* the check of MIN_DATA_POINTS of the route
ManualAfterBaseline(stats) ==
    IF ManualBelowFloor(stats)
    THEN ManualResponds(man, 400)
    ELSE man' = [man EXCEPT !.pc = "recent"]

\* calculateBaselineFromDB(30) resolves or rejects inside getBaselineStatistics
ManualBaseline ==
    /\ man.pc = "baseline"
    /\ \/ /\ baselineCache' = CacheAfterCalculation(30)
          /\ ManualAfterBaseline(baselineCache'.data)
       \/ /\ IF baselineCache.data.present
             THEN ManualAfterBaseline(baselineCache.data)
             ELSE ManualResponds(man, 500)
          /\ UNCHANGED baselineCache
    /\ UNCHANGED << now, lastClaudeCall, dbPoints, dbLatest, dbSentiment, triggers,
                    anomalies, cyc, timer, started, req, aggregations, lastInvokeAt,
                    prevInvokeAt, lastInvokedCheck, pf, eng, txt, ctx >>

\* faulty variant: the route records its call in RATE_LIMIT.lastClaudeCall
ManualLastCallRecorded == now

\* RATE_LIMIT is local to anomaly-detector.js: the route calls the engine
\* without reading or writing it
ManualLastCall == lastClaudeCall

\* 3. getTimeSeriesData(24) resolves or rejects; 6. analyzeWithClaude is called
ManualRecent ==
    /\ man.pc = "recent"
    /\ \/ /\ ManualResponds(man, 500)
          /\ UNCHANGED lastClaudeCall
       \/ /\ man' = [man EXCEPT !.pc = "claude", !.attempt = 1, !.invoked = TRUE,
                                 !.invokeAt = now,
                                 !.limitedAtInvoke = ~RateAllowed(lastClaudeCall)]
          /\ lastClaudeCall' = ManualLastCall
    /\ UNCHANGED << now, baselineCache, dbPoints, dbLatest, dbSentiment, triggers,
                    anomalies, cyc, timer, started, req, aggregations, lastInvokeAt,
                    prevInvokeAt, lastInvokedCheck, pf, eng, txt, ctx >>

\* callClaudeAPI: one attempt ends; the route answers 500 when the engine
\* returns success: false
ManualClaude ==
    /\ man.pc = "claude"
    /\ \/ IF man.attempt < maxRetries
          THEN man' = [man EXCEPT !.attempt = @ + 1]
          ELSE ManualResponds(man, 500)
       \/ ManualResponds(man, 500)
       \/ ManualResponds(man, 200)
       \/ \E n \in 1..MaxFindings :
            man' = [man EXCEPT !.pc = "insert", !.toStore = n]
    /\ UNCHANGED << now, lastClaudeCall, baselineCache, dbPoints, dbLatest, dbSentiment,
                    triggers, anomalies, cyc, timer, started, req, aggregations,
                    lastInvokeAt, prevInvokeAt, lastInvokedCheck, pf, eng, txt, ctx >>

\* storeAnalysisResults: one insertAnomaly resolves or rejects
ManualInsert ==
    /\ man.pc = "insert"
    /\ \/ /\ anomalies' = Append(anomalies, [id |-> Len(anomalies) + 1, cycle |-> 0])
          /\ IF man.stored + 1 = man.toStore
             THEN ManualResponds(man, 200)
             ELSE man' = [man EXCEPT !.stored = @ + 1]
       \/ /\ ManualResponds(man, 500)
          /\ UNCHANGED anomalies
    /\ UNCHANGED << now, lastClaudeCall, baselineCache, dbPoints, dbLatest, dbSentiment,
                    triggers, cyc, timer, started, req, aggregations, lastInvokeAt,
                    prevInvokeAt, lastInvokedCheck, pf, eng, txt, ctx >>

ManualStep ==
    \/ ManualLatest
    \/ ManualBaseline
    \/ ManualRecent
    \/ ManualClaude
    \/ ManualInsert

\* the clock advances while a call of the external service is outstanding
ManualTick ==
    /\ now < MaxTime
    /\ man.pc = "claude" \/ \E c \in Cycles : cyc[c].pc = "claude"
    /\ \A c \in Cycles : cyc[c].pc = "claude" => now - cyc[c].checkAt < MaxCallTime
    /\ man.pc = "claude" => now - man.invokeAt < MaxCallTime
    /\ now' = now + 1
    /\ UNCHANGED << lastClaudeCall, baselineCache, dbPoints, dbLatest, dbSentiment, triggers,
                    anomalies, cyc, timer, started, req, aggregations, lastInvokeAt,
                    prevInvokeAt, lastInvokedCheck, pf, eng, txt, man, ctx >>

\* the request next to the detection cycle in flight
NextManual ==
    \/ ManualTick
    \/ ManualStep
    \/ \E c \in Cycles :
         \/ Collect(c)
         \/ GetLatest(c)
         \/ CalcBaseline(c)
         \/ Prefilter(c)
         \/ Store(c)
         \/ RateDb(c)
         \/ Recent(c)
         \/ Claude(c)
         \/ Insert(c)
         \/ Link(c)

SpecManual == InitManual /\ [][NextManual]_vars

(***************************************************************************)
(* The first detection cycle of a restarted process: RATE_LIMIT is empty   *)
(* and the store holds what the earlier process wrote.                     *)
(***************************************************************************)

\* what the earlier process collected at time 0, and its escalation
EarlierPoint == DataPoint(1000, 1000, 5, 16, 10)
EarlierTrigger ==
    LET currentData == Row(EarlierPoint, 0)
        baselineStats == Baseline(48, 30, 0)
    IN  TriggerRow(1, 1, analyzeStatisticalAnomalies(currentData, baselineStats, NoSentiment, 0),
                   currentData, baselineStats)

\* The earlier process called the engine at time 0: a finding was stored and
\* linked to the trigger row, or the call gave no finding and the row kept
\* claude_called = false.  The new process starts at most one rate limit
\* interval later.
InitRestart ==
    /\ now \in 0..minIntervalMs
    /\ lastClaudeCall = NoTime
    /\ baselineCache = [data |-> NoBaseline, calculatedAt |-> NoTime, writes |-> 0]
    /\ dbPoints = 47
    /\ dbLatest = Row(EarlierPoint, 0)
    /\ dbSentiment = NoSentiment
    /\ \/ /\ triggers = << [EarlierTrigger EXCEPT !.claude_called = TRUE,
                                                  !.claude_call_timestamp = 0,
                                                  !.anomaly_id = 1] >>
          /\ anomalies = << [id |-> 1, cycle |-> 1] >>
       \/ /\ triggers = << EarlierTrigger >>
          /\ anomalies = << >>
    /\ cyc = [c \in Cycles |-> IdleCycle]
    /\ timer = [armed |-> FALSE, nextFire |-> NoTime, every |-> 0]
    /\ started = 0
    /\ req = [r \in Requests |-> IdleRequest]
    /\ aggregations = 0
    /\ lastInvokeAt = 0
    /\ prevInvokeAt = NoTime
    /\ lastInvokedCheck = 0
    /\ pf = NoPf
    /\ eng = IdleEngine
    /\ txt = IdleParse
    /\ man = IdleManual
    /\ ctx = IdleContext

\* startContinuousCollection up to the return of its first collection
NextRestart ==
    \/ StartFirst
    \/ Tick
    \/ \E c \in Cycles :
         \/ Collect(c)
         \/ GetLatest(c)
         \/ CalcBaseline(c)
         \/ Prefilter(c)
         \/ Store(c)
         \/ RateDb(c)
         \/ Recent(c)
         \/ Claude(c)
         \/ Insert(c)
         \/ Link(c)

SpecRestart == InitRestart /\ [][NextRestart]_vars

\* the restarted process with its interval callbacks: the earlier process
\* stored a finding and the new one starts right after it
InitRestartRun == InitRestart /\ now = 0 /\ triggers[1].claude_called

SpecRestartRun == InitRestartRun /\ [][Next]_vars

(***************************************************************************)
(* Properties.                                                             *)
(***************************************************************************)

C2_FailureLeavesLastCall ==
    [][ \A c \in Cycles :
          ( /\ InEngine(c)
            /\ cyc'[c].pc = "done"
            /\ cyc'[c].result.present
            /\ cyc'[c].result.claudeCalled
            /\ ~cyc'[c].result.claudeResult.success )
          => lastClaudeCall' = lastClaudeCall ]_vars

\* C3: two calls of analyzeWithClaude are never outstanding at once, and two
\* successive calls start at least the minimum interval apart.
C3_OneEngineCallAtATime ==
    /\ Cardinality({ c \in Cycles : InEngine(c) }) <= 1
    /\ prevInvokeAt /= NoTime => lastInvokeAt - prevInvokeAt >= minIntervalMs

\* C4: at most one execution of collectCurrentData / detectAnomalies is active.
C4_CyclesDoNotOverlap ==
    Cardinality({ c \in Cycles : Active(c) }) <= 1

\* C5: every result of analyzeStatisticalAnomalies with shouldCallClaude has
\* isAnomalous.
C5_EscalationImpliesAnomalous ==
    pf.out.present => (pf.out.shouldCallClaude => pf.out.isAnomalous)

\* the pre-filter recommended an escalation
C5_Witness ==
    pf.out.present /\ pf.out.shouldCallClaude /\ pf.out.isAnomalous

C7_EngineOnlyWhenRecommendedAndAllowed ==
    \A c \in Cycles :
        /\ cyc[c].invoked \/ InEngine(c) => cyc[c].recommended /\ cyc[c].allowed
        /\ cyc[c].produced /\ ~cyc[c].recommended
           => /\ cyc[c].checkAt = NoTime
              /\ ~cyc[c].allowed
              /\ ~cyc[c].invoked
              /\ cyc[c].pc \in {"store", "done"}

\* a cycle is inside analyzeWithClaude
C7_Witness ==
    \E c \in Cycles :
        /\ cyc[c].pc = "claude"
        /\ cyc[c].invoked
        /\ cyc[c].recommended
        /\ cyc[c].allowed

C9_NoStatisticsBelowFloor ==
    \A r \in Requests :
        req[r].pc = "done" /\ req[r].status = 200
        => req[r].body.data_points >= MANUAL_MIN_DATA_POINTS

\* C10: a cycle whose baseline has fewer than MIN_DATA_POINTS data points
\* returns success = false with the reason of insufficient data, which is not
\* the result of a calm cycle; it has not run the pre-filter, stored no
\* trigger, made no rate-limit check, called no engine and not written
\* RATE_LIMIT.lastClaudeCall.
C10_NotReadyBelowFloor ==
    \A c \in Cycles :
        (cyc[c].baselineStats.present /\ cyc[c].baselineStats.data_points < MIN_DATA_POINTS)
        => /\ cyc[c].pc = "done"
           /\ cyc[c].result.present
           /\ ~cyc[c].result.success
           /\ cyc[c].result.reason = "Insufficient baseline data"
           /\ ~cyc[c].result.error
           /\ cyc[c].result /= CalmResult
           /\ ~cyc[c].prefilterRan
           /\ ~cyc[c].storeSubmitted
           /\ cyc[c].checkAt = NoTime
           /\ ~cyc[c].invoked
           /\ ~cyc[c].wrote
           /\ \A i \in DOMAIN triggers : triggers[i].cycle /= c

\* a cycle returned on a baseline of 47 data points
C10_Witness ==
    \E c \in Cycles :
        /\ cyc[c].pc = "done"
        /\ cyc[c].baselineStats.present
        /\ cyc[c].baselineStats.data_points = MIN_DATA_POINTS - 1
        /\ cyc[c].result.present

\* C11: a call of getBaselineStatistics whose recomputation failed answers
\* with the cached statistics exactly when a cache entry exists, and these
\* statistics are marked as stale: they differ from what a call that did not
\* fail returned from the same cache entry.
C11_StaleFallbackIsMarked ==
    /\ \A r \in Requests :
         req[r].pc = "done" /\ req[r].failed
         => /\ req[r].status = 200 <=> req[r].version > 0
            /\ req[r].status = 200 => req[r].body.present
    /\ \A r1, r2 \in Requests :
         ( /\ req[r1].pc = "done" /\ req[r1].status = 200 /\ req[r1].failed
           /\ req[r2].pc = "done" /\ req[r2].status = 200 /\ ~req[r2].failed
           /\ req[r1].version = req[r2].version )
         => req[r1].body /= req[r2].body

C12_HasEveryField(anomaly) ==
    /\ anomaly.type /= Absent
    /\ anomaly.severity /= Absent
    /\ anomaly.confidence.kind /= "undefined"
    /\ anomaly.title /= Absent
    /\ anomaly.description /= Absent

C12_Persisted(i) == \E j \in DOMAIN eng.stored : eng.stored[j].index = i

\* C12: when the answer of the external service holds a candidate that lacks a
\* required field (type, severity, confidence, title, description), only that
\* candidate is dropped: once analyzeWithClaude has returned and no insert
\* failed, every other candidate of the answer that has all five fields is
\* persisted.
C12_IncompleteCandidateAlone ==
    ( /\ eng.pc = "returned" /\ eng.answered /\ ~eng.insertFailed
      /\ \E i \in DOMAIN eng.batch : ~C12_HasEveryField(eng.batch[i]) )
    => \A i \in DOMAIN eng.batch :
         C12_HasEveryField(eng.batch[i]) => C12_Persisted(i)

\* C13: an answer whose candidates all have the five required fields is not
\* rejected, whatever their severity and confidence are (a confidence of exactly
\* 0 included): each candidate is persisted, with a severity of LOW, MEDIUM,
\* HIGH or CRITICAL and a confidence between 0 and 1.
C13_CoercedNotRejected ==
    ( /\ eng.pc = "returned" /\ eng.answered /\ ~eng.insertFailed
      /\ eng.batch /= << >>
      /\ \A i \in DOMAIN eng.batch : C12_HasEveryField(eng.batch[i]) )
    => /\ ~eng.rejected
       /\ \A i \in DOMAIN eng.batch : C12_Persisted(i)
       /\ \A j \in DOMAIN eng.stored :
            /\ eng.stored[j].severity \in validSeverities
            /\ eng.stored[j].confidence \in 0..10

C15_DetectionNeverThrows ==
    /\ \A c \in Cycles :
         cyc[c].pc = "done" /\ cyc[c].collected => cyc[c].result.present
    /\ started >= 1 /\ cyc[1].pc = "done" => timer.armed \/ ArmPending
    /\ timer.armed /\ started < MaxCycles => now <= timer.nextFire

C15_Witness ==
    /\ cyc[1].pc = "done" /\ cyc[1].collected
    /\ cyc[1].result.present /\ cyc[1].result.error
    /\ timer.armed
    /\ started = 1

\* C16: an execution of analyzeWithClaude that has called the external service
\* eventually returns, even when the service never answers: the call is
\* bounded by a timeout of its own, apart from the bound on the retries.
C16_AnalyzeReturns == (eng.pc = "calling") ~> (eng.pc = "returned")

C17_Returned == pf.out.present /\ ~pf.out.thrown

C17_MetricsOf(evidence) ==
    { evidence[i].metric : i \in DOMAIN evidence } \ {"correlation"}

C17_CorrelationFired(evidence) ==
    \E i \in DOMAIN evidence : evidence[i].metric = "correlation"

\* C17: in a result of the pre-filter a trigger of metric 'correlation' is
\* present if and only if the other evidence name at least two distinct metrics;
\* it has severity HIGH, and with it maxSeverity is HIGH or CRITICAL and
\* shouldCallClaude is true, also when every other trigger is MEDIUM.
C17_CorrelationIffTwoMetrics ==
    C17_Returned
    => LET evidence == pf.out.triggers IN
       /\ C17_CorrelationFired(evidence)
          <=> Cardinality(C17_MetricsOf(evidence)) >= 2
       /\ \A i \in DOMAIN evidence :
            evidence[i].metric = "correlation" => evidence[i].severity = "HIGH"
       /\ C17_CorrelationFired(evidence)
          => /\ pf.out.maxSeverity \in {"HIGH", "CRITICAL"}
             /\ pf.out.shouldCallClaude

C17_Witness ==
    /\ C17_Returned
    /\ C17_CorrelationFired(pf.out.triggers)
    /\ Cardinality(C17_MetricsOf(pf.out.triggers)) = 2
    /\ \A i \in DOMAIN pf.out.triggers :
         pf.out.triggers[i].metric /= "correlation"
         => pf.out.triggers[i].severity = "MEDIUM"
    /\ pf.out.maxSeverity = "HIGH"
    /\ pf.out.shouldCallClaude

C18_Rank(severity) ==
    CASE severity = "CRITICAL" -> 4
      [] severity = "HIGH" -> 3
      [] severity = "MEDIUM" -> 2
      [] severity = "LOW" -> 1

\* C18: in a result of the pre-filter with evidence, maxSeverity is the
\* severity of one of the evidence and no trigger, the correlation trigger
\* included, has a higher one in the order CRITICAL > HIGH > MEDIUM > LOW;
\* shouldCallClaude is true exactly when there is a trigger and maxSeverity is
\* CRITICAL or HIGH or the correlation trigger is present.
C18_MaxSeverityAndEscalation ==
    C17_Returned
    => LET evidence == pf.out.triggers IN
       /\ evidence /= << >>
          => /\ \E i \in DOMAIN evidence : evidence[i].severity = pf.out.maxSeverity
             /\ \A i \in DOMAIN evidence :
                  C18_Rank(evidence[i].severity) <= C18_Rank(pf.out.maxSeverity)
       /\ pf.out.shouldCallClaude
          <=> /\ evidence /= << >>
              /\ \/ pf.out.maxSeverity \in {"CRITICAL", "HIGH"}
                 \/ C17_CorrelationFired(evidence)

C18_Witness ==
    /\ C17_Returned
    /\ C17_CorrelationFired(pf.out.triggers)
    /\ \E i \in DOMAIN pf.out.triggers : pf.out.triggers[i].severity = "MEDIUM"
    /\ \E i \in DOMAIN pf.out.triggers : pf.out.triggers[i].severity = "CRITICAL"
    /\ pf.out.maxSeverity = "CRITICAL"
    /\ pf.out.shouldCallClaude

C19_Severities(metric) ==
    { pf.out.triggers[i].severity :
        i \in { j \in DOMAIN pf.out.triggers : pf.out.triggers[j].metric = metric } }

\* the band of |value - mean| / stddev: MEDIUM from 2.0, HIGH from 2.5, the top
\* tier (CRITICAL or HIGH) from 3.0, none below 2.0
C19_Band(value, mean, stddev) ==
    LET z == [num |-> value - mean, den |-> stddev] IN
    IF ZAbsGe(z, Z_SCORE_CRITICAL) THEN {"CRITICAL", "HIGH"}
    ELSE IF ZAbsGe(z, Z_SCORE_HIGH) THEN {"HIGH"}
    ELSE IF ZAbsGe(z, Z_SCORE_MEDIUM) THEN {"MEDIUM"}
    ELSE {}

C19_Banded(metric, value, mean, stddev) ==
    value /= NoValue /\ stddev > 0
    => /\ C19_Severities(metric) /= {} <=> C19_Band(value, mean, stddev) /= {}
       /\ C19_Severities(metric) \subseteq C19_Band(value, mean, stddev)

\* C19: in a result of the pre-filter, for the TVL, the queue size and the
\* withdrawal volume and for every current value (0 and values below the mean
\* included), a trigger of the metric is present if and only if
\* |value - mean| / stddev >= 2.0, with severity MEDIUM in [2.0, 2.5), HIGH in
\* [2.5, 3.0) and the top tier from 3.0.
C19_MagnitudeBands ==
    C17_Returned
    => /\ C19_Banded("tvl", pf.cur.tvl_eth, pf.base.tvl_avg, pf.base.tvl_stddev)
       /\ C19_Banded("queue", pf.cur.queue_size, pf.base.queue_size_avg,
                     pf.base.queue_size_stddev)
       /\ C19_Banded("withdrawals", pf.cur.withdrawals_24h, pf.base.withdrawals_avg,
                     pf.base.withdrawals_stddev)

C20_Tier(ratio) ==
    IF Abs(ratio - 1000) >= PEG_CRITICAL THEN {"CRITICAL"}
    ELSE IF Abs(ratio - 1000) >= PEG_HIGH THEN {"HIGH"}
    ELSE IF Abs(ratio - 1000) >= PEG_MEDIUM THEN {"MEDIUM"}
    ELSE {}

\* C20: in a result of the pre-filter for a snapshot with a peg ratio, the
\* severities of the peg triggers are given by |ratio - 1.0| alone: CRITICAL from
\* 1%, HIGH from 0.5%, MEDIUM from 0.3%, none below; a deviation of 1.3% or
\* more (ratio 0.987, and ratio 0) gives a CRITICAL peg trigger and
\* shouldCallClaude.
C20_PegTiers ==
    C17_Returned /\ pf.cur.eeth_eth_ratio /= NoValue
    => /\ C19_Severities("peg") = C20_Tier(pf.cur.eeth_eth_ratio)
       /\ "CRITICAL" \in C20_Tier(pf.cur.eeth_eth_ratio) => pf.out.shouldCallClaude

C21_TriggerWriteFailed(c) ==
    cyc[c].pc = "done" /\ cyc[c].storeCompleted /\ cyc[c].triggerId = 0

\* C21: a cycle whose write of the trigger failed still goes on to the engine
\* when the pre-filter recommends escalation and the rate limit allows it, and
\* the object it returns shows that the write failed: it is not the object that
\* a cycle with the same outcome and a written trigger returns.
C21_TriggerFailureIsReported ==
    \A c \in Cycles :
        C21_TriggerWriteFailed(c)
        => /\ cyc[c].recommended /\ cyc[c].allowed
              => cyc[c].invoked \/ cyc[c].result.error
           /\ cyc[c].result \notin
                { CalmResult, RateLimitedResult,
                  ClaudeCalledResult(cyc[c].result.claudeResult) }

\* C29: analyzeWithClaude persists all findings of a batch or none: when it
\* has returned success = false, no finding of the batch is in the store.
C29_AllOrNothing ==
    eng.pc = "returned" /\ ~eng.result.success => eng.stored = << >>

C23_TriggersOf(finding) ==
    { i \in DOMAIN triggers :
        /\ triggers[i].cycle = finding.cycle
        /\ triggers[i].anomaly_id = finding.id }

\* C23: once the cycle that produced it has returned, every row of the table
\* anomalies is referred to by exactly one row of anomaly_triggers, the row of
\* that cycle, also when the cycle produced several rows and also when its write
\* of the trigger failed.
C23_FindingHasOneTrigger ==
    \A k \in DOMAIN anomalies :
        cyc[anomalies[k].cycle].pc = "done"
        => Cardinality(C23_TriggersOf(anomalies[k])) = 1

\* C30: once a cycle has returned, the row of anomaly_triggers it created has
\* claude_called = true if and only if the cycle called analyzeWithClaude,
\* whether the call returned findings, returned none or failed; the count and
\* latest time that getDetectionStats reads from these rows are then those of
\* the calls.
C30_ClaudeCalledIffInvoked ==
    \A i \in DOMAIN triggers :
        LET c == triggers[i].cycle IN
        cyc[c].pc = "done" /\ cyc[c].triggerId = i
        => (triggers[i].claude_called <=> cyc[c].invoked)

C22_Findings(c) == cyc[c].result.claudeResult.anomalies

C22_Escalated(c) ==
    /\ cyc[c].pc = "done" /\ cyc[c].result.present
    /\ cyc[c].result.claudeCalled
    /\ cyc[c].result.claudeResult.success
    /\ C22_Findings(c) /= << >>

\* C22: a cycle whose escalation succeeded with n findings has called
\* broadcastAnomalyDetected n times, once for each finding, and whether a
\* broadcast failed or not its result is a success that carries the n findings.
C22_NotifiedOncePerFinding ==
    \A c \in Cycles :
        C22_Escalated(c)
        => /\ cyc[c].notified = Len(C22_Findings(c))
           /\ cyc[c].result.success /\ ~cyc[c].result.error

\* C28: a call of getBaselineStatistics(days) that answers returns statistics
\* of the window asked for: period_days of the value equals days, also when
\* statistics of another window were cached less than CACHE_TTL before.
C28_WindowAskedFor ==
    \A r \in Requests :
        req[r].pc = "done" /\ req[r].status = 200
        => req[r].body.period_days = req[r].days

\* C24: the row of anomaly_triggers written by storeTriggerResult, read back,
\* gives the evidence list of the result of the pre-filter in the same order
\* and the same maxSeverity.
C24_TriggerRoundTrip ==
    \A c \in Cycles :
        cyc[c].triggerRecord /= 0 /\ cyc[c].prefilterResult.present
        => LET row == triggers[cyc[c].triggerRecord] IN
           /\ row.triggers = cyc[c].prefilterResult.triggers
           /\ "maxSeverity" \in DOMAIN row
           /\ row.maxSeverity = cyc[c].prefilterResult.maxSeverity

\* C25: two evaluations of analyzeStatisticalAnomalies with the same snapshot,
\* baseline and sentiment return the same result, the timestamp included: the
\* result depends on nothing but the arguments.
C25_Deterministic ==
    pf.out.present /\ pf.again.present => pf.again = pf.out

\* C26: parseClaudeResponse gives the same analysis for a valid payload inside
\* a markdown code fence, with or without the tag json, as for the payload
\* itself.
C26_FenceIsTransparent ==
    txt.raw.present /\ txt.fenced.present => txt.fenced = txt.raw

C27_ManualLeavesRateLimit ==
    man' /= man => lastClaudeCall' = lastClaudeCall /\ triggers' = triggers

C27_NotLimitedByManual ==
    /\ man.pc = "done" /\ ~man.invoked => man.status \in {404, 400, 500}
    /\ \A c \in Cycles :
         cyc[c].result.present /\ cyc[c].result.rateLimited => lastInvokeAt /= NoTime

C31_Settled == \A c \in Cycles : cyc[c].pc /= "link"

\* C31: the time a restarted process would load from anomaly_triggers
\* (getLastClaudeCallTime with an empty in-memory value) equals the time held
\* in RATE_LIMIT.lastClaudeCall.
C31_RestartAgrees ==
    C31_Settled /\ lastClaudeCall /= NoTime => LastCallInStore(triggers) = lastClaudeCall

\* the row the earlier process left with claude_called = true is in the store
C32_StoreHasCall == triggers /= << >> /\ triggers[1].claude_called

\* the rate limit check of the cycle did not get the time the store has (a
\* read that succeeds returns it and puts it into RATE_LIMIT.lastClaudeCall):
\* the in-memory value was empty and the read of the store failed
C32_ReadFailed(c) ==
    /\ cyc[c].checkAt /= NoTime
    /\ C32_StoreHasCall
    /\ cyc[c].lastCallSeen = NoTime \/ lastClaudeCall = NoTime

\* C32: when the in-memory time is empty and the read from the store fails,
\* checkRateLimit allows the call: the cycle is not returned as rate limited
\* and goes on to call the engine (it is returned without a call only when
\* the read of the recent data that follows throws).
C32_FailsOpen ==
    \A c \in Cycles :
        C32_ReadFailed(c)
        => /\ cyc[c].allowed
           /\ cyc[c].pc \in {"recent", "claude", "insert", "link", "done"}
           /\ cyc[c].pc \in {"claude", "insert", "link"} => cyc[c].invoked
           /\ cyc[c].pc = "done"
              => /\ ~cyc[c].result.rateLimited
                 /\ cyc[c].invoked \/ cyc[c].result.error

C32_Witness ==
    \E c \in Cycles :
        /\ C32_ReadFailed(c)
        /\ cyc[c].checkAt < minIntervalMs
        /\ cyc[c].pc = "done" /\ cyc[c].invoked /\ ~cyc[c].result.error

\* the step writes RATE_LIMIT.lastClaudeCall
C33_Written == lastClaudeCall' /= lastClaudeCall

\* the step is the return of analyzeWithClaude to a cycle
C33_ByInvokingCycle ==
    \E c \in Cycles : cyc[c].invoked /\ ~cyc[c].wrote /\ cyc'[c].wrote

\* C33: RATE_LIMIT.lastClaudeCall never decreases, and it is written only by
\* a cycle that called the engine.
C33_NeverDecreases ==
    [][C33_Written => lastClaudeCall' >= lastClaudeCall /\ C33_ByInvokingCycle]_vars

\* the columns of a trigger row that storeTriggerResult fills from the cycle
C34_Stored(row) ==
    << row.id, row.timestamp, row.is_anomalous, row.should_call_claude, row.triggers,
       row.current_data, row.baseline_stats >>

\* the columns that refer to the engine call
C34_Reference(row) == << row.claude_called, row.claude_call_timestamp, row.anomaly_id >>

\* C34: a row of anomaly_triggers stays in the table and keeps its
\* timestamp, is_anomalous, should_call_claude, triggers, current_data and
\* baseline_stats; the only change it undergoes is the attachment of a stored
\* finding (anomaly_id with claude_called and claude_call_timestamp).
C34_TriggerIsImmutable ==
    [][\A i \in DOMAIN triggers :
          /\ i \in DOMAIN triggers'
          /\ C34_Stored(triggers'[i]) = C34_Stored(triggers[i])
          /\ C34_Reference(triggers'[i]) /= C34_Reference(triggers[i])
             => /\ triggers'[i].claude_called
                /\ triggers'[i].claude_call_timestamp = now
                /\ \E j \in DOMAIN anomalies : anomalies[j].id = triggers'[i].anomaly_id]_vars

\* a row with a finding attached, in a state where a later cycle has stored
\* its own row
C34_Witness ==
    \E i \in DOMAIN triggers :
        /\ triggers[i].claude_called /\ triggers[i].anomaly_id /= 0
        /\ i < Len(triggers)

C35_NoSpread(stddev) == stddev = 0 \/ stddev = NoValue

C35_Silent(metric, value, mean, stddev) ==
    C35_NoSpread(stddev)
    => /\ calculateZScore(value, mean, stddev).num = 0
       /\ \A i \in DOMAIN pf.out.triggers : pf.out.triggers[i].metric /= metric

\* C35: with a baseline stddev of 0 (or none) calculateZScore gives 0 for
\* every current value and mean, and the pre-filter produces no z-score
\* trigger for that metric.
C35_ZeroSpreadIsSilent ==
    C17_Returned
    => /\ C35_Silent("tvl", pf.cur.tvl_eth, pf.base.tvl_avg, pf.base.tvl_stddev)
       /\ C35_Silent("peg_zscore", pf.cur.eeth_eth_ratio, pf.base.peg_avg, pf.base.peg_stddev)
       /\ C35_Silent("queue", pf.cur.queue_size, pf.base.queue_size_avg,
                     pf.base.queue_size_stddev)
       /\ C35_Silent("withdrawals", pf.cur.withdrawals_24h, pf.base.withdrawals_avg,
                     pf.base.withdrawals_stddev)

\* a result for a baseline without spread and current values far from the means
C35_Witness ==
    /\ C17_Returned
    /\ C35_NoSpread(pf.base.tvl_stddev) /\ C35_NoSpread(pf.base.queue_size_stddev)
    /\ pf.cur.tvl_eth = 1150 /\ pf.cur.queue_size = 16

\* the call f was made with forceRefresh = true and its calculation succeeded
C36_Refreshed(f) == req[f].force /\ req[f].pc = "done" /\ ~req[f].failed

\* the call r without forceRefresh found the entry written by f, younger
\* than the TTL
C36_Follows(r, f) ==
    /\ ~req[r].force /\ req[r].pc /= "idle"
    /\ req[r].writesAtStart = req[f].version
    /\ req[r].ageAtStart /= NoTime /\ req[r].ageAtStart < CACHE_TTL

\* C36: a call of getBaselineStatistics with forceRefresh = true always
\* recalculates, whatever the age of the cached value; when the calculation
\* succeeds its result is returned and put into the cache, and a call without
\* forceRefresh that finds this entry within the TTL returns it without
\* recalculating.
C36_ForceRefreshBypassesCache ==
    \A f \in Requests :
        /\ req[f].force /\ req[f].pc /= "idle" => req[f].aggregated
        /\ C36_Refreshed(f)
           => /\ req[f].status = 200
              /\ req[f].body.period_days = 30
              /\ req[f].version > req[f].writesAtStart
              /\ \A r \in Requests :
                   C36_Follows(r, f)
                   => /\ ~req[r].aggregated
                      /\ req[r].pc = "done" /\ req[r].status = 200
                      /\ req[r].body = req[f].body

\* a forced call that found a valid cache entry, and a later call served with
\* its result
C36_Witness ==
    \E f, r \in Requests :
        /\ C36_Refreshed(f)
        /\ req[f].ageAtStart /= NoTime /\ req[f].ageAtStart < CACHE_TTL
        /\ C36_Follows(r, f)
        /\ req[r].body = req[f].body

(***************************************************************************)
(* The recent samples of the context document: getTimeSeriesData           *)
(* (queries.js), the slice handed to analyzeWithClaude (anomaly-detector.js,*)
(* routes/analysis.js) and the slice of constructPrompt                    *)
(* (claude-analyzer.js). A sample is its timestamp; the clock counts       *)
(* collection intervals.                                                   *)
(***************************************************************************)

\* ORDER BY timestamp ASC
RECURSIVE OrderByTimestampAsc(_)
OrderByTimestampAsc(S) ==
    IF S = {} THEN << >>
    ELSE LET first == CHOOSE x \in S : \A y \in S : x <= y
         IN  << first >> \o OrderByTimestampAsc(S \ {first})

\* ORDER BY timestamp DESC
RECURSIVE OrderByTimestampDesc(_)
OrderByTimestampDesc(S) ==
    IF S = {} THEN << >>
    ELSE LET first == CHOOSE x \in S : \A y \in S : y <= x
         IN  << first >> \o OrderByTimestampDesc(S \ {first})

\* WHERE timestamp > NOW() - INTERVAL hours
InInterval(rows, hours, at) == {t \in rows : t > at - hours * SamplesPerHour}

\* faulty variant: the rows come back oldest first
getTimeSeriesDataOldestFirst(rows, hours, at) ==
    OrderByTimestampAsc(InInterval(rows, hours, at))

\* queries.getTimeSeriesData(hours) at the time at
getTimeSeriesData(rows, hours, at) ==
    OrderByTimestampDesc(InInterval(rows, hours, at))

\* Array.prototype.slice(0, end)
slice(list, end) == SubSeq(list, 1, IF end < Len(list) THEN end ELSE Len(list))

\* the object constructPrompt writes for a sample
PromptSample(d) == [timestamp |-> d]

\* constructPrompt: recentData.slice(0, 10).map(...)
recentDataSample(recentData) ==
    LET head == slice(recentData, PromptSamples)
    IN  [i \in DOMAIN head |-> PromptSample(head[i])]

\* a collector stores the row of this interval (a sample, or the error record)
SampleStored ==
    /\ ctx.pc = "collecting"
    /\ ctx.clock < MaxClock
    /\ ctx' = [ctx EXCEPT !.rows = @ \cup {ctx.clock}, !.clock = @ + 1]
    /\ UNCHANGED << now, lastClaudeCall, baselineCache, dbPoints, dbLatest, dbSentiment,
                    triggers, anomalies, cyc, timer, started, req, aggregations,
                    lastInvokeAt, prevInvokeAt, lastInvokedCheck, pf, eng, txt, man >>

\* an interval without a row: the insert of the error record failed as well
SampleMissed ==
    /\ ctx.pc = "collecting"
    /\ ctx.clock < MaxClock
    /\ ctx.gaps < MaxGaps
    /\ ctx' = [ctx EXCEPT !.clock = @ + 1, !.gaps = @ + 1]
    /\ UNCHANGED << now, lastClaudeCall, baselineCache, dbPoints, dbLatest, dbSentiment,
                    triggers, anomalies, cyc, timer, started, req, aggregations,
                    lastInvokeAt, prevInvokeAt, lastInvokedCheck, pf, eng, txt, man >>

\* getTimeSeriesData(hours) resolves, the first 20 rows go to analyzeWithClaude,
\* constructPrompt writes the first 10 of them
ContextBuilt ==
    /\ ctx.pc = "collecting"
    /\ \E hours \in ContextHours :
         LET recentData == getTimeSeriesData(ctx.rows, hours, ctx.clock)
             passed == slice(recentData, EngineSamples)
         IN  ctx' = [ctx EXCEPT !.pc = "built", !.hours = hours, !.passed = passed,
                                !.prompt = recentDataSample(passed)]
    /\ UNCHANGED << now, lastClaudeCall, baselineCache, dbPoints, dbLatest, dbSentiment,
                    triggers, anomalies, cyc, timer, started, req, aggregations,
                    lastInvokeAt, prevInvokeAt, lastInvokedCheck, pf, eng, txt, man >>

NextContext ==
    \/ SampleStored
    \/ SampleMissed
    \/ ContextBuilt

\* the context document over histories of every length
SpecContext == Init /\ [][NextContext]_vars

C37_Timestamps(list) == {list[i] : i \in DOMAIN list}

\* the entries of list are distinct samples of the history, newest first,
\* and no sample left out is newer than one of them
C37_MostRecent(list) ==
    /\ C37_Timestamps(list) \subseteq ctx.rows
    /\ \A i, j \in DOMAIN list : i < j => list[i] > list[j]
    /\ \A t \in ctx.rows \ C37_Timestamps(list) : \A i \in DOMAIN list : t < list[i]

C37_InPrompt == [i \in DOMAIN ctx.prompt |-> ctx.prompt[i].timestamp]

====
